---- MODULE Spec2Model ----
(***************************************************************************)
(* Model of the entity multiplexer (package multiplexer): registration of  *)
(* entity definitions by Create, the embedding linker, and the recursive   *)
(* creation decoder processCreation with eField.WriteToField.              *)
(***************************************************************************)
EXTENDS Integers, Sequences, FiniteSets, TLC

VARIABLES
    pc,           \* position of Create: "idle", "loop", "ok", "failed", "panic"
    db,           \* TRUE iff the db handle given to Create is non-nil
    definitions,  \* the definitions given to Create (struct type names)
    idx,          \* loop index i of Create (1-based)
    Entities,     \* EMux.Entities : EntityID -> metaEntity
    TypeMap,      \* EMux.TypeMap  : struct type -> EntityID
    createErr,    \* error returned by Create
    collections,  \* names passed to db.Collection, in call order
    indexCalls,   \* entity ids for which Indexes().CreateMany was issued
    middleware,   \* last CreationMiddleware call: its argument and results
    decoded,      \* last processCreation call: its arguments and results
    encoded,      \* the entity value the decoded document was encoded from, if any
    request,      \* what the middleware's handler did with the request it was given
    call,         \* last call of a function of the library: arguments and result
    payloads,     \* EMuxContext.payloads
    emcErr,       \* EMuxContext.err
    mutex,        \* EMuxContext.mutex: the goroutine holding it, or Unlocked
    goroutines,   \* each goroutine's call on the context and its position in it
    history,      \* what the calls that have returned did to the context
    handlers,     \* each goroutine serving a request: its position in the handler
    contexts,     \* the EMuxContexts allocated by muxContext.Create, in order
    values        \* the values allocated by reflect.New in processCreation, in order

muxVars == <<pc, db, definitions, idx, Entities, TypeMap, createErr,
             collections, indexCalls, middleware, decoded, encoded, request>>
libVars == <<call>>
ctxVars == <<payloads, emcErr, mutex, goroutines, history>>
reqVars == <<handlers, contexts, values>>
vars == <<muxVars, libVars, ctxVars, reqVars>>

(***************************************************************************)
(* Bounds of the model.                                                    *)
(***************************************************************************)
MaxDefs == 3
MaxList == 2

(***************************************************************************)
(* Struct tags (eField constants).                                         *)
(***************************************************************************)
IDTag == "_id_"
HandleTag == "_hd_"
AxisTag == "_ax_"
IndexTag == "_ix_"
JSONTag == "json"
BSONTag == "bson"

EntityIDToken == "*"
CreationFieldsToken == "c"
AxisFieldToken == "a"
HandleTokens == <<CreationFieldsToken, AxisFieldToken>>

(***************************************************************************)
(* Struct fields.  A field is its name, the kind and name of its type, the *)
(* element type of a slice, and its tag string as a function from tag key  *)
(* to value.  Tag.Get returns "" for a key that is not in the tag.         *)
(***************************************************************************)
NoTags == [k \in {} |-> ""]

Fld(name, kind, type, elem, tags) ==
    [Name |-> name, Kind |-> kind, Type |-> type, Elem |-> elem, Tag |-> tags]

TagGet(field, key) ==
    IF key \in DOMAIN field.Tag THEN field.Tag[key] ELSE ""

(***************************************************************************)
(* The struct types handed to Create.  FieldsOf gives a type's fields in   *)
(* declaration order.                                                      *)
(***************************************************************************)
IntF(name, tags) == Fld(name, "int", "int", "", tags)
StrF(name, tags) == Fld(name, "string", "string", "", tags)
StructF(name, type, tags) == Fld(name, "struct", type, "", tags)
SliceF(name, elem, tags) == Fld(name, "slice", "[]" \o elem, elem, tags)

\* the definitions of the registration tests
RegistryFields(type) ==
    CASE type = "ENoID" ->
           << IntF("F1", ("json" :> "f_1") @@ ("bson" :> "f1") @@ ("_id_" :> "")),
              IntF("F2", ("json" :> "f_2") @@ ("bson" :> "f2") @@ ("_id_" :> "-")) >>
      [] type = "EDupID1" ->
           << IntF("F1", ("json" :> "f_1") @@ ("bson" :> "f1") @@ ("_id_" :> "<id>")) >>
      [] type = "EDupID2" ->
           << IntF("F2", ("json" :> "f_2") @@ ("bson" :> "f2") @@ ("_id_" :> "<id>")) >>
      [] type = "ENoDupID3" ->
           << IntF("F1", ("json" :> "f_1") @@ ("bson" :> "f1") @@ ("_id_" :> "<id>")),
              IntF("F2", ("json" :> "f_2") @@ ("bson" :> "f2") @@ ("_id_" :> "<new_id>")) >>
      [] type = "ENoDBColl" ->
           << IntF("F1", ("json" :> "f1") @@ ("_id_" :> "!no-coll")) >>

\* further definitions that take the '!' branch and the index call of Create:
\* a marked identifier equal to an unmarked one, fields with both the index
\* and the axis tag, the bare marker, a type embedding the bare marker's, and
\* an identity followed by a field whose identity tag is the ignore value
MarkerFields(type) ==
    CASE type = "EIgnoredLast" ->
           << IntF("F1", ("json" :> "f_1") @@ ("_id_" :> "kept")),
              IntF("F2", ("json" :> "f_2") @@ ("_id_" :> "-")) >>
      [] type = "ENoCollDup" ->
           << IntF("F1", ("json" :> "f1") @@ ("_id_" :> "!<new_id>")) >>
      [] type = "EIndexed" ->
           << StrF("Email", ("json" :> "email") @@ ("_id_" :> "indexed")
                            @@ ("_ax_" :> "true") @@ ("_ix_" :> "true")) >>
      [] type = "ENoCollIndexed" ->
           << StrF("Email", ("json" :> "email") @@ ("_id_" :> "!indexed")
                            @@ ("_ax_" :> "true") @@ ("_ix_" :> "true")) >>
      [] type = "EBang" ->
           << StrF("Name", ("json" :> "name") @@ ("_id_" :> "!") @@ ("_hd_" :> "c")) >>
      [] type = "Holder" ->
           << StrF("ID", ("json" :> "id") @@ ("_id_" :> "holder")),
              StructF("Item", "EBang", ("json" :> "item") @@ ("_hd_" :> "c")) >>

\* the definitions of the middleware tests; TestUser is taken with the Age field
\* that its declaration carries in a comment
RequestFields(type) ==
    CASE type = "TestUser" ->
           << Fld("ID", "array", "primitive.ObjectID", "",
                  ("json" :> "-") @@ ("bson" :> "_id") @@ ("_id_" :> "user")),
              StrF("Name", ("json" :> "name") @@ ("_hd_" :> "c")),
              StrF("Email", ("json" :> "email") @@ ("_hd_" :> "c")),
              Fld("Age", "int", "int64", "", ("json" :> "age") @@ ("_hd_" :> "c")) >>
      [] type = "TaskDetails" ->
           << StrF("Date", ("json" :> "date") @@ ("_id_" :> "task-details") @@ ("_hd_" :> "c")) >>
      [] type = "Task" ->
           << StrF("Name", ("json" :> "name") @@ ("_id_" :> "task") @@ ("_hd_" :> "c")),
              StructF("Details", "TaskDetails", ("json" :> "details") @@ ("_hd_" :> "c")) >>
      [] type = "UserEmbed" ->
           << StructF("Tasks", "Task",
                      ("json" :> "tasks") @@ ("_id_" :> "user-embed") @@ ("_hd_" :> "c")) >>
      [] type = "EmbedCollUser" ->
           << SliceF("Tasks", "Task",
                     ("json" :> "tasks") @@ ("_id_" :> "user-embed-coll") @@ ("_hd_" :> "c")) >>
      [] type = "TestCase" ->
           << StrF("ID", ("json" :> "id") @@ ("_id_" :> "test-case")),
              StrF("Name", ("json" :> "name") @@ ("_hd_" :> "c")) >>
      [] type = "TestSuite" ->
           << StrF("ID", ("json" :> "id") @@ ("_id_" :> "test-suite")),
              StrF("Name", ("json" :> "name") @@ ("_hd_" :> "c")),
              SliceF("Tests", "TestCase", ("json" :> "tests") @@ ("_hd_" :> "c")) >>
      [] type = "Project" ->
           << StrF("ID", ("json" :> "id") @@ ("_id_" :> "project")),
              StrF("Name", ("json" :> "name") @@ ("_hd_" :> "c")),
              SliceF("Suites", "TestSuite", ("json" :> "suites") @@ ("_hd_" :> "c")) >>

\* a definition with one creation field of each kind WriteToField writes
\* from a JSON value, the first stored under a name of its own
KindFields(type) ==
    CASE type = "EKinds" ->
           << StrF("ID", ("json" :> "id") @@ ("_id_" :> "kinds")),
              StrF("Label", ("json" :> "label") @@ ("bson" :> "lbl") @@ ("_hd_" :> "c")),
              Fld("Ratio", "float", "float64", "", ("json" :> "ratio") @@ ("_hd_" :> "c")),
              Fld("Done", "bool", "bool", "", ("json" :> "done") @@ ("_hd_" :> "c")) >>

\* definitions with axis fields: a string axis, an integer axis declared
\* before a string one, and an axis declared before the primary key
ObjectIDF(name, tags) == Fld(name, "array", "primitive.ObjectID", "", tags)

AxisFields(type) ==
    CASE type = "EAxis" ->
           << ObjectIDF("ID", ("json" :> "-") @@ ("bson" :> "_id") @@ ("_id_" :> "axis")),
              StrF("Email", ("json" :> "email") @@ ("bson" :> "mail") @@ ("_ax_" :> "true")),
              StrF("Name", ("json" :> "name")) >>
      [] type = "EAxisInt" ->
           << ObjectIDF("ID", ("json" :> "-") @@ ("bson" :> "_id") @@ ("_id_" :> "axis-int")),
              IntF("Serial", ("json" :> "serial") @@ ("_ax_" :> "true")),
              StrF("Email", ("json" :> "email") @@ ("_ax_" :> "true")) >>
      [] type = "EAxisFirst" ->
           << StrF("Email", ("json" :> "email") @@ ("_ax_" :> "true")),
              ObjectIDF("ID", ("json" :> "-") @@ ("bson" :> "_id") @@ ("_id_" :> "axis-first")) >>

\* a definition with fields open to edits
EditableFields(type) ==
    CASE type = "EEditable" ->
           << StrF("ID", ("json" :> "id") @@ ("_id_" :> "editable")),
              StrF("Name", ("json" :> "name") @@ ("_hd_" :> "ced")),
              StrF("Email", ("json" :> "email") @@ ("_hd_" :> "ce")) >>

FieldsOf(type) ==
    CASE type \in {"ENoID", "EDupID1", "EDupID2", "ENoDupID3", "ENoDBColl"} ->
           RegistryFields(type)
      [] type \in {"ENoCollDup", "EIndexed", "ENoCollIndexed", "EBang", "Holder",
                    "EIgnoredLast"} ->
           MarkerFields(type)
      [] type = "EKinds" -> KindFields(type)
      [] type = "EEditable" -> EditableFields(type)
      [] type \in {"EAxis", "EAxisInt", "EAxisFirst"} -> AxisFields(type)
      [] OTHER -> RequestFields(type)

\* The definitions each specification draws from.
RegistryTypes == {"ENoID", "EDupID1", "EDupID2", "ENoDupID3", "ENoDBColl",
                  "ENoCollDup", "EIndexed", "ENoCollIndexed", "EBang", "Holder",
                  "EIgnoredLast"}
EmbedTypes == {"TaskDetails", "Task", "UserEmbed", "EmbedCollUser", "TestUser"}
CollectionTypes == {"TestCase", "TestSuite", "Project"}
RoundTripTypes == {"TestUser", "EKinds"}
FilterTypes == {"EAxis", "EAxisInt", "EAxisFirst"}
EditTypes == {"EEditable", "TestUser"}
StructTypes == RegistryTypes \cup EmbedTypes \cup CollectionTypes \cup RoundTripTypes
                   \cup FilterTypes \cup EditTypes

(***************************************************************************)
(* eField.NameByPriority: the first tag of the priority list that is       *)
(* neither "" nor "-", else the field's name.                              *)
(***************************************************************************)
PriorityJsonBson == <<JSONTag, BSONTag>>
PriorityBsonJson == <<BSONTag, JSONTag>>

\* variant: the ignore value "-" is taken as a name
NameByPriorityKeepingDash(field, p) ==
    IF p = <<>> THEN field.Name
    ELSE IF TagGet(field, Head(p)) # "" THEN TagGet(field, Head(p))
    ELSE IF Len(p) > 1 /\ TagGet(field, p[2]) # "" THEN TagGet(field, p[2])
    ELSE field.Name

RECURSIVE NameByPriority(_, _)
NameByPriority(field, p) ==
    IF p = <<>> THEN field.Name
    ELSE LET tag == TagGet(field, Head(p))
         IN IF tag # "" /\ tag # "-" THEN tag ELSE NameByPriority(field, Tail(p))

\* strings.ContainsAny(tag, tok) for a one-character tok
ContainsAny(tag, tok) == \E k \in 1..Len(tag) : SubSeq(tag, k, k) = tok

(***************************************************************************)
(* eField.CheckEmbedding: slice kind sets cFlag and the element type,      *)
(* struct kind sets sFlag and the field's type.  Meta is the link to the   *)
(* embedded entity's metaEntity: <<>> is nil, <<id>> points at             *)
(* Entities[id].                                                           *)
(***************************************************************************)
CheckEmbedding(field) ==
    CASE field.Kind = "slice"  -> [CFlag |-> TRUE, SFlag |-> FALSE, EmbeddedType |-> field.Elem]
      [] field.Kind = "struct" -> [CFlag |-> FALSE, SFlag |-> TRUE, EmbeddedType |-> field.Type]
      [] OTHER                 -> [CFlag |-> FALSE, SFlag |-> FALSE, EmbeddedType |-> ""]

Embedding(field) ==
    LET e == CheckEmbedding(field)
    IN [CFlag |-> e.CFlag, SFlag |-> e.SFlag, EmbeddedType |-> e.EmbeddedType, Meta |-> <<>>]

(***************************************************************************)
(* classifyHandleTags / classifyFields.  classes maps the tokens "*", "c"  *)
(* and "a" to slices of condensedFields; a missing key reads as the nil    *)
(* slice <<>>.  An IDTag that is neither "" nor "-" resets classes["*"].   *)
(***************************************************************************)
NoClasses == [tok \in {EntityIDToken, CreationFieldsToken, AxisFieldToken} |-> <<>>]

\* variant: the ignore value "-" counts as an identity
IsIDTagAcceptingDash(tag) == tag # ""

IsIDTag(tag) == tag # "" /\ tag # "-"

CondensedField(field) ==
    [Name |-> field.Name,
     Type |-> field.Type,
     Kind |-> field.Kind,
     RequestID |-> NameByPriority(field, PriorityJsonBson),
     Value |-> IF IsIDTag(TagGet(field, IDTag)) THEN TagGet(field, IDTag) ELSE "",
     EmbeddedEntity |-> Embedding(field)]

\* variant: an identity already found is kept, so the first identity field wins
ClassifyTokenKeepingFirst(field, classes, tok) ==
    LET newField == CondensedField(field)
        withID == IF IsIDTag(TagGet(field, IDTag)) /\ classes[EntityIDToken] = <<>>
                  THEN [classes EXCEPT ![EntityIDToken] = <<newField>>]
                  ELSE classes
    IN IF ContainsAny(TagGet(field, HandleTag), tok)
       THEN [withID EXCEPT ![tok] = Append(withID[tok], newField)]
       ELSE withID

ClassifyToken(field, classes, tok) ==
    LET newField == CondensedField(field)
        withID == IF IsIDTag(TagGet(field, IDTag))
                  THEN [classes EXCEPT ![EntityIDToken] = <<newField>>]
                  ELSE classes
    IN IF ContainsAny(TagGet(field, HandleTag), tok)
       THEN [withID EXCEPT ![tok] = Append(withID[tok], newField)]
       ELSE withID

RECURSIVE ClassifyTokens(_, _, _)
ClassifyTokens(field, classes, toks) ==
    IF toks = <<>> THEN classes
    ELSE ClassifyTokens(field, ClassifyToken(field, classes, Head(toks)), Tail(toks))

classifyHandleTags(field, classes) == ClassifyTokens(field, classes, HandleTokens)

RECURSIVE ClassifyFrom(_, _, _)
ClassifyFrom(fields, k, classes) ==
    IF k > Len(fields) THEN classes
    ELSE ClassifyFrom(fields, k + 1, classifyHandleTags(fields[k], classes))

classifyFields(defType) == ClassifyFrom(FieldsOf(defType), 1, NoClasses)

(***************************************************************************)
(* Entity.Optimize: the index keys are the fields whose IndexTag and       *)
(* AxisTag are both "true".                                                *)
(***************************************************************************)
RECURSIVE IndexKeysFrom(_, _)
IndexKeysFrom(fields, k) ==
    IF k > Len(fields) THEN <<>>
    ELSE LET field == fields[k]
             rest == IndexKeysFrom(fields, k + 1)
         IN IF TagGet(field, IndexTag) = "true" /\ TagGet(field, AxisTag) = "true"
            THEN <<NameByPriority(field, PriorityBsonJson)>> \o rest
            ELSE rest

IndexKeys(defType) == IndexKeysFrom(FieldsOf(defType), 1)

(***************************************************************************)
(* Create, lines 129-138: the EntityID is the identity value, without its  *)
(* first character when that is '!', which also suppresses the collection. *)
(***************************************************************************)
MissingID(idClass) == Len(idClass) = 0 \/ idClass[1].Value = ""

\* variant: the marker is stripped but the collection is requested all the same
CreateCollectionAlways(value) == TRUE

CreateCollection(value) == SubSeq(value, 1, 1) # "!"

EntityIDOf(value) ==
    IF SubSeq(value, 1, 1) # "!" THEN value ELSE SubSeq(value, 2, Len(value))

\* variant: a later definition replaces the registered one
OverwritesRegistered(ents, id) == TRUE

\* newMux.Entities[EntityID] == nil
Unregistered(ents, id) == id \notin DOMAIN ents

MapPut(f, k, v) == [x \in DOMAIN f \cup {k} |-> IF x = k THEN v ELSE f[x]]

MetaEntity(defType, id, storage, classes) ==
    [EntityID |-> id,
     Entity |-> [SchemaDefinition |-> defType, PStorage |-> storage],
     FieldClassifications |-> classes]

RegisterEntity(ents, id, meta) == MapPut(ents, id, meta)

\* variant: the reverse map is not filled
RegisterTypeForgotten(tm, defType, id) == tm

RegisterType(tm, defType, id) == MapPut(tm, defType, id)

\* variant: Create leaves the indexing out
OptimizesNever(id) == FALSE

\* if EntityID != "" { _ = defEntity.Optimize() }
Optimizes(id) == id # ""

\* EMux.Collection: the handle of a registered entity, <<>> when it is nil
Collection(ents, entityID) == ents[entityID].Entity.PStorage

(***************************************************************************)
(* EMux.link: a creation field is linked to the metaEntity registered for  *)
(* its embedded type (its own type when it is neither slice nor struct),   *)
(* unless TypeMap yields "" for that type.                                 *)
(***************************************************************************)
TypeMapGet(tm, type) == IF type \in DOMAIN tm THEN tm[type] ELSE ""

EmbedID(tm, field) ==
    IF field.EmbeddedEntity.CFlag \/ field.EmbeddedEntity.SFlag
    THEN TypeMapGet(tm, field.EmbeddedEntity.EmbeddedType)
    ELSE TypeMapGet(tm, field.Type)

LinkField(ents, tm, field) ==
    LET embedID == EmbedID(tm, field)
    IN IF embedID = "" THEN field
       ELSE [field EXCEPT !.EmbeddedEntity.Meta =
                 IF embedID \in DOMAIN ents THEN <<embedID>> ELSE <<>>]

link(ents, tm) ==
    [id \in DOMAIN ents |->
        [ents[id] EXCEPT !.FieldClassifications[CreationFieldsToken] =
            [k \in 1..Len(@) |-> LinkField(ents, tm, @[k])]]]

(***************************************************************************)
(* Payload values are what encoding/json decodes into interface{}: nil,    *)
(* string, float64, bool, map[string]interface{} and []interface{}.        *)
(***************************************************************************)
Null == [t |-> "nil"]
Str(s) == [t |-> "string", str |-> s]
Num(n) == [t |-> "float64", num |-> n]
Bool(b) == [t |-> "bool", bool |-> b]
Map(m) == [t |-> "map", map |-> m]
List(l) == [t |-> "slice", list |-> l]
\* a decoded entity handed to WriteToField (embedValue.Interface())
Struct(type, val) == [t |-> "struct", type |-> type, struct |-> val]

EmptyMap == [k \in {} |-> Null]

\* payload[key]: nil when the key is missing
PayloadGet(payload, key) == IF key \in DOMAIN payload THEN payload[key] ELSE Null

(***************************************************************************)
(* reflect.New(type).Elem(): the zero value.  A struct value is a function *)
(* from field names to values, a slice value a sequence.                   *)
(***************************************************************************)
RECURSIVE Zero(_, _)
Zero(kind, type) ==
    CASE kind = "string" -> ""
      [] kind = "int"    -> 0
      [] kind = "float"  -> 0
      [] kind = "bool"   -> FALSE
      [] kind = "slice"  -> <<>>
      [] kind = "struct" ->
           LET fields == FieldsOf(type)
           IN [name \in {fields[k].Name : k \in 1..Len(fields)} |->
                  LET f == CHOOSE g \in {fields[k] : k \in 1..Len(fields)} : g.Name = name
                  IN Zero(f.Kind, f.Type)]
      [] OTHER -> "zero"

\* reflect.ValueOf(nil)
InvalidValue == [invalid |-> TRUE]

(***************************************************************************)
(* eField.WriteToField: the data must have the dynamic type the field's    *)
(* kind asks for; a failed assertion panics and is recovered as            *)
(* InvalidDataType.  The result is the error and the field's new value.    *)
(***************************************************************************)
WriteOK(v) == [err |-> "nil", set |-> TRUE, val |-> v]
WriteErr(e) == [err |-> e, set |-> FALSE, val |-> "zero"]

WriteToField(kind, type, data) ==
    CASE kind = "string" ->
           IF data.t = "string" THEN WriteOK(data.str) ELSE WriteErr("InvalidDataType")
      [] kind = "int" ->
           IF data.t = "int64" THEN WriteOK(data.int) ELSE WriteErr("InvalidDataType")
      [] kind = "float" ->
           IF data.t = "float64" THEN WriteOK(data.num) ELSE WriteErr("InvalidDataType")
      [] kind = "bool" ->
           IF data.t = "bool" THEN WriteOK(data.bool) ELSE WriteErr("InvalidDataType")
      [] kind = "ptr" -> WriteErr("WriteToPtrField")
      [] OTHER ->
           \* field.Set(reflect.ValueOf(data)): the value must be assignable
           IF data.t = "struct" /\ kind = "struct" /\ data.type = type
           THEN WriteOK(data.struct) ELSE WriteErr("InvalidDataType")

(***************************************************************************)
(* EMux.processCreation.  The result is the pair it returns:               *)
(* preProcessedEntity and the error ("nil" when there is none).            *)
(***************************************************************************)
Result(val, err) == [val |-> val, err |-> err]

\* variant: a null is data as well, only a missing key is skipped
HasDataOrNull(fieldData) == fieldData.t \in {"nil", "string", "float64", "bool", "map", "slice"}

\* if fieldData := payload[cf.RequestID]; fieldData != nil
HasData(fieldData) == fieldData.t # "nil"

\* variant: the decoded elements are put in front, last one first
AppendPayloadReversed(fieldValue, writePayload) ==
    [i \in 1..Len(writePayload) |-> writePayload[Len(writePayload) + 1 - i]] \o fieldValue

\* fieldToWrite.Set(reflect.Append(fieldToWrite, writePayload...))
AppendPayload(fieldValue, writePayload) == fieldValue \o writePayload

RECURSIVE processCreation(_, _, _)
RECURSIVE DecodeFields(_, _, _, _, _)
RECURSIVE DecodeItems(_, _, _, _, _)

\* variant: a failed write only skips the field
WriteFailedSkipsField(ents, cfs, k, payload, ent, err) ==
    DecodeFields(ents, cfs, k + 1, payload, ent)

\* lines 366-369: a failed write returns the entity built so far and the error
WriteFailed(ents, cfs, k, payload, ent, err) == Result(ent, err)

\* variant: a collection field without link is an invalid embedded payload
UnlinkedAsInvalidPayload(ent) == Result(ent, "EmbeddedWriteDataInvalid")

\* lines 317-319: a collection field whose Meta is nil
Unlinked(ent) == Result(ent, "InvalidEntityLink")

\* variant: the error of the embedded decode is handed up unchanged
EmbedFailedPassingError(ent, embedValue) == Result(ent, embedValue.err)

\* lines 357-360: a failed embedded decode is an invalid embedded payload
EmbedFailed(ent, embedValue) == Result(ent, "EmbeddedWriteDataInvalid")

\* variant: an element that is not a map is left out of the collection
DecodeItemsSkippingInvalid(ents, meta, writeData, k, writePayload) ==
    IF k > Len(writeData) THEN [vals |-> writePayload, err |-> "nil"]
    ELSE LET writeItem == writeData[k]
         IN IF writeItem.t # "map"
            THEN DecodeItems(ents, meta, writeData, k + 1, writePayload)
            ELSE LET r == processCreation(ents, meta, writeItem.map)
                 IN IF r.err # "nil"
                    THEN [vals |-> writePayload, err |-> r.err]
                    ELSE DecodeItems(ents, meta, writeData, k + 1, Append(writePayload, r.val))

\* lines 329-345: the loop over the elements of a collection payload
DecodeItems(ents, meta, writeData, k, writePayload) ==
    IF k > Len(writeData) THEN [vals |-> writePayload, err |-> "nil"]
    ELSE LET writeItem == writeData[k]
         IN IF writeItem.t # "map"
            THEN [vals |-> writePayload, err |-> "EmbeddedWriteDataInvalid"]
            ELSE LET r == processCreation(ents, meta, writeItem.map)
                 IN IF r.err # "nil"
                    THEN [vals |-> writePayload, err |-> r.err]
                    ELSE DecodeItems(ents, meta, writeData, k + 1, Append(writePayload, r.val))

\* lines 311-371: the loop over the creation fields, from field k on
DecodeFields(ents, cfs, k, payload, ent) ==
    IF k > Len(cfs) THEN Result(ent, "nil")
    ELSE
    LET cf == cfs[k]
        fieldData == PayloadGet(payload, cf.RequestID)
        meta == cf.EmbeddedEntity.Meta
    IN
    IF ~HasData(fieldData) THEN DecodeFields(ents, cfs, k + 1, payload, ent)
    ELSE IF cf.EmbeddedEntity.CFlag THEN
        IF meta = <<>> THEN Unlinked(ent)
        ELSE IF fieldData.t # "slice" THEN Result(ent, "EmbeddedWriteDataInvalid")
        ELSE LET items == DecodeItems(ents, meta, fieldData.list, 1, <<>>)
             IN IF items.err # "nil" THEN Result(ent, items.err)
                ELSE DecodeFields(ents, cfs, k + 1, payload,
                        [ent EXCEPT ![cf.Name] = AppendPayload(@, items.vals)])
    ELSE IF cf.EmbeddedEntity.SFlag /\ fieldData.t # "map"
        THEN Result(ent, "EmbeddedWriteDataInvalid")
    ELSE
    LET embedValue == IF cf.EmbeddedEntity.SFlag
                      THEN processCreation(ents, meta, fieldData.map)
                      ELSE Result(InvalidValue, "nil")
    IN
    IF embedValue.err # "nil" THEN EmbedFailed(ent, embedValue)
    ELSE
    LET data == IF cf.EmbeddedEntity.SFlag
                THEN Struct(ents[meta[1]].Entity.SchemaDefinition, embedValue.val)
                ELSE fieldData
        w == WriteToField(cf.Kind, cf.Type, data)
    IN IF w.err # "nil" THEN WriteFailed(ents, cfs, k, payload, ent, w.err)
       ELSE DecodeFields(ents, cfs, k + 1, payload, [ent EXCEPT ![cf.Name] = w.val])

processCreation(ents, meta, payload) ==
    IF meta = <<>> THEN Result(InvalidValue, "InvalidEntityLink")
    ELSE LET m == ents[meta[1]]
         IN DecodeFields(ents, m.FieldClassifications[CreationFieldsToken], 1, payload,
                         Zero("struct", m.Entity.SchemaDefinition))

(***************************************************************************)
(* The request payloads the decoder is run on: for each creation field of  *)
(* the entity's type the key is absent or carries one of a few values of   *)
(* the right and of wrong shapes; nested maps are built the same way from  *)
(* the embedded type.  depth is the nesting depth of the map being built.  *)
(***************************************************************************)
Absent == [t |-> "absent"]

SeqsUpTo(n, S) == UNION {[1..len -> S] : len \in 0..n}

ScalarValues(depth) ==
    IF depth = 0 THEN {Absent, Null, Str(""), Str("a"), Num(1)} ELSE {Str("a"), Num(1)}

WrongShapes(depth) ==
    IF depth = 0 THEN {Absent, Null, Str("a")} ELSE {Absent, Str("a")}

RECURSIVE Payloads(_, _)
RECURSIVE FieldValues(_, _)
RECURSIVE PayloadsFrom(_, _, _)

FieldValues(field, depth) ==
    CASE field.Kind = "struct" ->
           WrongShapes(depth)
             \cup (IF depth = 0 THEN {List(<<>>)} ELSE {})
             \cup {Map(m) : m \in Payloads(field.Type, depth + 1)}
      [] field.Kind = "slice" ->
           WrongShapes(depth)
             \cup (IF depth = 0 THEN {Map(EmptyMap)} ELSE {})
             \cup {List(l) : l \in SeqsUpTo(MaxList - depth,
                       {Str("a")} \cup {Map(m) : m \in Payloads(field.Elem, depth + 1)})}
      [] OTHER -> ScalarValues(depth)

PayloadsFrom(fields, k, depth) ==
    IF k > Len(fields) THEN {EmptyMap}
    ELSE LET rest == PayloadsFrom(fields, k + 1, depth)
             field == fields[k]
         IN IF ~ContainsAny(TagGet(field, HandleTag), CreationFieldsToken) THEN rest
            ELSE {IF x.t = "absent" THEN m
                  ELSE MapPut(m, NameByPriority(field, PriorityJsonBson), x) :
                     m \in rest, x \in FieldValues(field, depth)}

Payloads(type, depth) == PayloadsFrom(FieldsOf(type), 1, depth)

(***************************************************************************)
(* State machine.                                                          *)
(***************************************************************************)
NoFunction == [x \in {} |-> x]

NotDecoded ==
    [called |-> FALSE, id |-> "", payload |-> EmptyMap, val |-> InvalidValue, err |-> "nil"]

NotEncoded == [called |-> FALSE, by |-> "", from |-> InvalidValue]

(***************************************************************************)
(* Entity values and their encodings.  An int64 held in an interface{} is  *)
(* Int64(n); a value of another Go type that no branch of the decoder      *)
(* accepts is Other.                                                       *)
(***************************************************************************)
Int64(n) == [t |-> "int64", int |-> n]
Other(type) == [t |-> "other", gotype |-> type]

\* the values a field of an entity takes: scalars vary, the rest stay zero
FieldSamples(field) ==
    CASE field.Kind = "string" -> {"", "a"}
      [] field.Kind = "int"    -> {0, 1}
      [] field.Kind = "float"  -> {0, 1}
      [] field.Kind = "bool"   -> BOOLEAN
      [] field.Kind = "array"  -> {Zero(field.Kind, field.Type), "oid"}
      [] OTHER -> {Zero(field.Kind, field.Type)}

RECURSIVE ValuesFrom(_, _)
ValuesFrom(fields, k) ==
    IF k > Len(fields) THEN {[n \in {} |-> 0]}
    ELSE {(fields[k].Name :> v) @@ rest :
             v \in FieldSamples(fields[k]), rest \in ValuesFrom(fields, k + 1)}

EntityValues(type) == ValuesFrom(FieldsOf(type), 1)

\* v.Field(i).Interface(): the field's value with its Go type
Interface(field, v) ==
    CASE field.Kind = "string" -> Str(v)
      [] field.Kind = "int"    -> IF field.Type = "int64" THEN Int64(v)
                                                          ELSE Other(field.Type)
      [] field.Kind = "float"  -> Num(v)
      [] field.Kind = "bool"   -> Bool(v)
      [] field.Kind = "struct" -> Struct(field.Type, v)
      [] OTHER -> Other(field.Type)

\* Entity.ToBSON: every field but the one stored as "_id", under its BSON name
BSONName(field) == NameByPriority(field, PriorityBsonJson)

ToBSON(type, val) ==
    LET fields == FieldsOf(type)
        kept == {k \in 1..Len(fields) : TagGet(fields[k], BSONTag) # "_id"}
    IN [key \in {BSONName(fields[k]) : k \in kept} |->
           LET field == fields[CHOOSE k \in kept : BSONName(fields[k]) = key]
           IN Interface(field, val[field.Name])]

\* json.Marshal followed by the decoding into map[string]interface{}: a field
\* is stored under its json tag, or its name when it has none, and left out
\* when the tag is "-"; every number comes back as a float64, a struct as a
\* map, a nil slice as null
JSONName(field) ==
    IF TagGet(field, JSONTag) = "" THEN field.Name ELSE TagGet(field, JSONTag)

RECURSIVE JSONDocument(_, _)
JSONDocument(type, val) ==
    LET fields == FieldsOf(type)
        kept == {k \in 1..Len(fields) : TagGet(fields[k], JSONTag) # "-"}
    IN [key \in {JSONName(fields[k]) : k \in kept} |->
           LET field == fields[CHOOSE k \in kept : JSONName(fields[k]) = key]
               v == val[field.Name]
           IN CASE field.Kind = "string" -> Str(v)
                [] field.Kind = "int"    -> Num(v)
                [] field.Kind = "float"  -> Num(v)
                [] field.Kind = "bool"   -> Bool(v)
                [] field.Kind = "struct" -> Map(JSONDocument(field.Type, v))
                [] field.Kind = "slice"  ->
                     IF v = <<>> THEN Null
                     ELSE List([i \in 1..Len(v) |-> Map(JSONDocument(field.Elem, v[i]))])
                [] OTHER -> Other(field.Type)]

(***************************************************************************)
(* entity.Filter.  The two tests compare interface{} values, which are     *)
(* equal only when they hold the same type and the same value.             *)
(***************************************************************************)
NilFilter == [nil |-> TRUE]
FilterOn(key, value) == [nil |-> FALSE, key |-> key, value |-> value]

\* filterValue != primitive.NilObjectID
NotNilObjectID(field, v) ==
    ~(field.Type = "primitive.ObjectID" /\ v = Zero(field.Kind, field.Type))

\* filterValue != ""
NotEmptyString(field, v) == ~(field.Type = "string" /\ v = "")

RECURSIVE FilterFrom(_, _, _)
FilterFrom(fields, val, i) ==
    IF i > Len(fields) THEN NilFilter
    ELSE LET field == fields[i]
             filterValue == val[field.Name]
         IN IF TagGet(field, BSONTag) = "_id" /\ NotNilObjectID(field, filterValue)
            THEN FilterOn("_id", filterValue)
            ELSE IF TagGet(field, AxisTag) = "true" /\ NotEmptyString(field, filterValue)
            THEN FilterOn(NameByPriority(field, PriorityBsonJson), filterValue)
            ELSE FilterFrom(fields, val, i + 1)

Filter(type, val) == FilterFrom(FieldsOf(type), val, 1)

Encoders == {"json", "bson"}

Encode(by, type, val) ==
    IF by = "json" THEN JSONDocument(type, val) ELSE ToBSON(type, val)

NoCall == [op |-> ""]

NoMiddleware ==
    [called |-> FALSE, of |-> "", id |-> "", err |-> "nil", handle |-> FALSE]

(***************************************************************************)
(* muxContext.EMuxContext.  Goroutines call Set, Retrieve, SetError and    *)
(* Error on one context; a call is at "lock" before mutex.Lock() returns,  *)
(* at "locked" before its body runs, and at "defer" before the deferred    *)
(* mutex.Unlock() and its return.                                          *)
(***************************************************************************)
MaxGoroutines == 2
Goroutines == 1..MaxGoroutines
Unlocked == 0

Keys == {"k1", "k2"}
Values == {"v1", "v2"}
Messages == {"e1", "e2", "%d"}

\* a nil interface{} and a nil error
NilValue == "<nil>"
NilError == "nil"

\* fmt.Errorf(msg): msg is the format, and a verb in it finds no operand
Errorf(msg) == IF msg = "%d" THEN "%!d(MISSING)" ELSE msg

Idle == [pc |-> "idle", op |-> "", key |-> "", arg |-> "", ret |-> ""]
Calling(op, key, arg) == [pc |-> "lock", op |-> op, key |-> key, arg |-> arg, ret |-> ""]

\* Create(): an empty map, no error, a fresh mutex
NoPayloads == [k \in {} |-> NilValue]
NoHistory == [sets |-> NoPayloads, first |-> NilError, last |-> NilError]

(***************************************************************************)
(* The handler the middleware returns, lines 239-262 (and 394-417 for the  *)
(* edits): what it has done when it returns.  The context is the           *)
(* EMuxContext it created and embedded in the request passed on, next the  *)
(* number of calls of next.ServeHTTP, status the status it answered.       *)
(***************************************************************************)
StatusBadRequest == 400

NoContext == [created |-> FALSE, payloads |-> NoPayloads, err |-> NilError]

NotHandled ==
    [handled |-> FALSE, wellFormed |-> FALSE, status |-> 0, decoder |-> "",
     context |-> NoContext, next |-> 0, seen |-> NoContext]

\* variant: the request is passed on after the bad-request answer
BadRequestPassedOn ==
    [handled |-> TRUE, wellFormed |-> FALSE, status |-> StatusBadRequest,
     decoder |-> "", context |-> NoContext, next |-> 1, seen |-> NoContext]

\* lines 243-244: http.Error(w, ..., http.StatusBadRequest); return
BadRequest ==
    [handled |-> TRUE, wellFormed |-> FALSE, status |-> StatusBadRequest,
     decoder |-> "", context |-> NoContext, next |-> 0, seen |-> NoContext]

\* the handler returns after its decoder ran and one call of next.ServeHTTP
\* with the context
Passed(decoder, context) ==
    [handled |-> TRUE, wellFormed |-> TRUE, status |-> 0, decoder |-> decoder,
     context |-> context, next |-> 1, seen |-> context]

\* muxCtx.SetError(err.Error()) when err != nil
WithError(context, err) ==
    IF err # "nil" THEN [context EXCEPT !.err = Errorf(err)] ELSE context

\* variant: the value is stored whatever the error is
PassedOnStoringAlways(decoder, entityID, val, err) ==
    Passed(decoder, [WithError([NoContext EXCEPT !.created = TRUE], err)
               EXCEPT !.payloads = MapPut(@, entityID, val)])

\* lines 247-261: muxContext.Create(), SetError when the decoder failed,
\* Set(meta.EntityID, &value) when Error() is nil, then next.ServeHTTP with
\* the request that carries the context; seen is the context as next finds it
PassedOn(decoder, entityID, val, err) ==
    LET withError == WithError([NoContext EXCEPT !.created = TRUE], err)
    IN IF withError.err = NilError
       THEN Passed(decoder, [withError EXCEPT !.payloads = MapPut(@, entityID, val)])
       ELSE Passed(decoder, withError)

(***************************************************************************)
(* Requests served concurrently by the handler of the creation middleware. *)
(* Each goroutine runs the handler of lines 239-262 for one request; the   *)
(* contexts and the entity values the handlers allocate live in two heaps, *)
(* and a handler holds the addresses of its own.                           *)
(***************************************************************************)
IdleHandler ==
    [pc |-> "idle", id |-> "", payload |-> EmptyMap, ctx |-> 0, ent |-> 0, k |-> 0,
     err |-> "nil", seen |-> NoContext]

\* variant: Create hands out the context made for the first request
CreateShared(heap) ==
    IF heap = <<>> THEN [heap |-> <<[NoContext EXCEPT !.created = TRUE]>>, at |-> 1]
    ELSE [heap |-> heap, at |-> 1]

\* muxContext.Create: a pointer to a new EMuxContext with a new payload map
Create(heap) ==
    [heap |-> Append(heap, [NoContext EXCEPT !.created = TRUE]), at |-> Len(heap) + 1]

\* variant: the value of an earlier call for the same type is taken again
NewShared(heap, zero) ==
    IF \E a \in 1..Len(heap) : DOMAIN heap[a] = DOMAIN zero
    THEN [heap |-> heap, at |-> CHOOSE a \in 1..Len(heap) : DOMAIN heap[a] = DOMAIN zero]
    ELSE [heap |-> Append(heap, zero), at |-> Len(heap) + 1]

\* reflect.New(meta.Entity.SchemaDefinition).Elem(), line 307
New(heap, zero) == [heap |-> Append(heap, zero), at |-> Len(heap) + 1]

Init ==
    /\ pc = "idle"
    /\ db = TRUE
    /\ definitions = <<>>
    /\ idx = 1
    /\ Entities = NoFunction
    /\ TypeMap = NoFunction
    /\ createErr = "nil"
    /\ collections = <<>>
    /\ indexCalls = <<>>
    /\ middleware = NoMiddleware
    /\ request = NotHandled
    /\ decoded = NotDecoded
    /\ encoded = NotEncoded
    /\ call = NoCall
    /\ payloads = NoPayloads
    /\ emcErr = NilError
    /\ mutex = Unlocked
    /\ goroutines = [g \in Goroutines |-> Idle]
    /\ history = NoHistory
    /\ handlers = [g \in Goroutines |-> IdleHandler]
    /\ contexts = <<>>
    /\ values = <<>>

\* variant: the storage provider is not tested
CreateCallWithoutTest(universe) ==
    /\ pc = "idle"
    /\ \E d \in BOOLEAN, defs \in SeqsUpTo(MaxDefs, universe) :
          /\ db' = d
          /\ definitions' = defs
          /\ pc' = "loop"
          /\ createErr' = "nil"
    /\ UNCHANGED <<idx, Entities, TypeMap, collections, indexCalls, decoded, encoded>>
    /\ UNCHANGED <<middleware, request, libVars, ctxVars, reqVars>>

\* variant: the error of Optimize ends Create
Propagated(state, err, ok) ==
    IF ok THEN [pc |-> state, err |-> err] ELSE [pc |-> "failed", err |-> "IndexFail"]

\* line 167, _ = defEntity.Optimize(): the error is dropped, the loop goes on
Discarded(state, err, ok) == [pc |-> state, err |-> err]

\* Create, lines 112-119, called with definitions of the types in universe
CreateCall(universe) ==
    /\ pc = "idle"
    /\ \E d \in BOOLEAN, defs \in SeqsUpTo(MaxDefs, universe) :
          /\ db' = d
          /\ definitions' = defs
          /\ IF d THEN pc' = "loop" /\ createErr' = "nil"
                  ELSE pc' = "failed" /\ createErr' = "DBUninitialized"
    /\ UNCHANGED <<idx, Entities, TypeMap, collections, indexCalls, decoded, encoded>>
    /\ UNCHANGED <<middleware, request, libVars, ctxVars, reqVars>>

\* Create, lines 122-168: one iteration of the loop over the definitions
CreateDefinition ==
    /\ pc = "loop"
    /\ idx <= Len(definitions)
    /\ LET defType == definitions[idx]
           fieldClassifications == classifyFields(defType)
           idClass == fieldClassifications[EntityIDToken]
       IN IF MissingID(idClass)
          THEN /\ pc' = "failed"
               /\ createErr' = "NoTag"
               /\ UNCHANGED <<idx, Entities, TypeMap, collections, indexCalls>>
          ELSE
          LET EntityID == EntityIDOf(idClass[1].Value)
              createCollection == CreateCollection(idClass[1].Value)
              defCollection == IF createCollection THEN <<EntityID>> ELSE <<>>
              meta == MetaEntity(defType, EntityID, defCollection, fieldClassifications)
              keys == IndexKeys(defType)
          IN
          /\ collections' = IF createCollection THEN Append(collections, EntityID)
                                                ELSE collections
          /\ IF ~Unregistered(Entities, EntityID)
             THEN /\ pc' = "failed"
                  /\ createErr' = "DuplicateTag"
                  /\ UNCHANGED <<idx, Entities, TypeMap, indexCalls>>
             ELSE
             /\ Entities' = RegisterEntity(Entities, EntityID, meta)
             /\ TypeMap' = RegisterType(TypeMap, defType, EntityID)
             /\ IF Optimizes(EntityID) /\ keys # <<>>
                THEN IF defCollection = <<>>
                     THEN \* nil PStorage: Indexes() dereferences nil
                          /\ pc' = "panic"
                          /\ UNCHANGED <<idx, createErr, indexCalls>>
                     ELSE \* CreateMany succeeds or fails; its error is dropped
                          /\ \E ok \in BOOLEAN :
                                /\ indexCalls' = Append(indexCalls,
                                    [id |-> EntityID, keys |-> keys, ok |-> ok,
                                     at |-> idx])
                                /\ pc' = Discarded(pc, createErr, ok).pc
                                /\ createErr' = Discarded(pc, createErr, ok).err
                          /\ idx' = idx + 1
                ELSE /\ idx' = idx + 1
                     /\ UNCHANGED <<pc, createErr, indexCalls>>
    /\ UNCHANGED <<db, definitions, decoded, encoded>>
    /\ UNCHANGED <<middleware, request, libVars, ctxVars, reqVars>>

\* Create, lines 171-172: link and return the multiplexer
CreateLink ==
    /\ pc = "loop"
    /\ idx > Len(definitions)
    /\ Entities' = link(Entities, TypeMap)
    /\ pc' = "ok"
    /\ UNCHANGED <<db, definitions, idx, TypeMap, createErr, collections,
                   indexCalls, decoded, encoded>>
    /\ UNCHANGED <<middleware, request, libVars, ctxVars, reqVars>>

\* variant: a handler is returned whatever the creation fields are
MiddlewareErrorIgnoringFields(ents, entityID) ==
    IF entityID \notin DOMAIN ents THEN "IncompleteEntityMetadata"
    ELSE IF ents[entityID].EntityID = "" THEN "IncompleteEntityMetadata"
    ELSE "nil"

\* CreationMiddleware, lines 226-236: the error it returns
MiddlewareError(ents, entityID) ==
    IF entityID \notin DOMAIN ents THEN "IncompleteEntityMetadata"
    ELSE IF ents[entityID].EntityID = "" THEN "IncompleteEntityMetadata"
    ELSE IF Len(ents[entityID].FieldClassifications[CreationFieldsToken]) = 0
    THEN "NoClassificationFields"
    ELSE "nil"

\* an identifier no definition carries
UnknownID == "unknown"

\* CreationMiddleware, lines 226-265: the handler is returned with a nil error
CreationMiddleware ==
    /\ pc = "ok"
    /\ ~request.handled
    /\ \E entityID \in DOMAIN Entities \cup {UnknownID} :
          LET err == MiddlewareError(Entities, entityID)
          IN middleware' = [called |-> TRUE, of |-> "creation", id |-> entityID,
                            err |-> err, handle |-> (err = "nil")]
    /\ UNCHANGED <<pc, db, definitions, idx, Entities, TypeMap, createErr,
                   collections, indexCalls, decoded, encoded, request>>
    /\ UNCHANGED <<libVars, ctxVars, reqVars>>

(***************************************************************************)
(* EditMiddleware and processEdits.  The two tokens they read the          *)
(* classifications of are declared in no file of the package; they are     *)
(* taken to be single characters tested against the handle tag as the      *)
(* creation token is.                                                      *)
(***************************************************************************)
EditFieldsToken == "e"
DeletionFieldsToken == "d"

\* meta.FieldClassifications[tok] for one of the two tokens
RECURSIVE ClassifiedFrom(_, _, _)
ClassifiedFrom(fields, k, tok) ==
    IF k > Len(fields) THEN <<>>
    ELSE IF ContainsAny(TagGet(fields[k], HandleTag), tok)
         THEN <<CondensedField(fields[k])>> \o ClassifiedFrom(fields, k + 1, tok)
         ELSE ClassifiedFrom(fields, k + 1, tok)

Classified(meta, tok) == ClassifiedFrom(FieldsOf(meta.Entity.SchemaDefinition), 1, tok)

\* EditMiddleware, lines 381-391: the error it returns
EditMiddlewareError(ents, entityID) ==
    IF entityID \notin DOMAIN ents THEN "IncompleteEntityMetadata"
    ELSE IF ents[entityID].EntityID = "" THEN "IncompleteEntityMetadata"
    ELSE IF Len(Classified(ents[entityID], EditFieldsToken)) = 0 THEN "NoEditFields"
    ELSE "nil"

EditMiddleware ==
    /\ pc = "ok"
    /\ ~request.handled
    /\ \E entityID \in DOMAIN Entities \cup {UnknownID} :
          LET e == EditMiddlewareError(Entities, entityID)
          IN middleware' = [called |-> TRUE, of |-> "edit", id |-> entityID,
                            err |-> e, handle |-> (e = "nil")]
    /\ UNCHANGED <<pc, db, definitions, idx, Entities, TypeMap, createErr,
                   collections, indexCalls, decoded, encoded, request>>
    /\ UNCHANGED <<libVars, ctxVars, reqVars>>

\* processEdits, lines 428-450: an ESpec for every deletion field the payload
\* has a value for
RECURSIVE EditsFrom(_, _, _)
EditsFrom(deletionFields, k, payload) ==
    IF k > Len(deletionFields) THEN <<>>
    ELSE LET df == deletionFields[k]
             targetVal == PayloadGet(payload, df.RequestID)
         IN IF targetVal # Null
            THEN <<[Field |-> df.Name, Target |-> targetVal, UpdateOperator |-> "",
                    QueryOperator |-> ""]>> \o EditsFrom(deletionFields, k + 1, payload)
            ELSE EditsFrom(deletionFields, k + 1, payload)

processEdits(ents, meta, payload) ==
    IF meta = <<>> THEN Result(<<>>, "InvalidEntityLink")
    ELSE Result(EditsFrom(Classified(ents[meta[1]], DeletionFieldsToken), 1, payload),
                "nil")

\* the bodies an edit request carries: a value or none for every field open
\* to edits or deletion
RECURSIVE EditPayloadsFrom(_, _)
EditPayloadsFrom(fields, k) ==
    IF k > Len(fields) THEN {EmptyMap}
    ELSE LET rest == EditPayloadsFrom(fields, k + 1)
             field == fields[k]
         IN IF ~ContainsAny(TagGet(field, HandleTag), EditFieldsToken)
               /\ ~ContainsAny(TagGet(field, HandleTag), DeletionFieldsToken)
            THEN rest
            ELSE {IF x.t = "absent" THEN m
                  ELSE MapPut(m, NameByPriority(field, PriorityJsonBson), x) :
                     m \in rest, x \in ScalarValues(0)}

\* the edit handler given a well-formed body, lines 394-416
EditHandler ==
    /\ pc = "ok"
    /\ ~request.handled
    /\ middleware.handle
    /\ middleware.of = "edit"
    /\ \E req \in EditPayloadsFrom(
                    FieldsOf(Entities[middleware.id].Entity.SchemaDefinition), 1) :
          LET r == processEdits(Entities, <<middleware.id>>, req)
          IN request' = PassedOn("processEdits", Entities[middleware.id].EntityID,
                                 r.val, r.err)
    /\ UNCHANGED <<pc, db, definitions, idx, Entities, TypeMap, createErr,
                   collections, indexCalls, decoded, encoded>>
    /\ UNCHANGED <<middleware, libVars, ctxVars, reqVars>>

\* the creation handler given a well-formed body, lines 241-261
Decode ==
    /\ pc = "ok"
    /\ ~request.handled
    /\ middleware.handle
    /\ middleware.of = "creation"
    /\ \E entityID \in {middleware.id} :
          /\ \E req \in Payloads(Entities[entityID].Entity.SchemaDefinition, 0) :
                LET r == processCreation(Entities, <<entityID>>, req)
                IN /\ decoded' = [called |-> TRUE, id |-> entityID, payload |-> req,
                                  val |-> r.val, err |-> r.err]
                   /\ request' = PassedOn("processCreation", Entities[entityID].EntityID,
                                        r.val, r.err)
    /\ UNCHANGED <<pc, db, definitions, idx, Entities, TypeMap, createErr,
                   collections, indexCalls, encoded>>
    /\ UNCHANGED <<middleware, libVars, ctxVars, reqVars>>

\* a handler given a body that is not well-formed JSON, lines 241-245
Malformed ==
    /\ pc = "ok"
    /\ ~request.handled
    /\ middleware.handle
    /\ request' = BadRequest
    /\ UNCHANGED <<pc, db, definitions, idx, Entities, TypeMap, createErr,
                   collections, indexCalls, decoded, encoded>>
    /\ UNCHANGED <<middleware, libVars, ctxVars, reqVars>>

\* the request is over
Served ==
    /\ request.handled
    /\ decoded' = NotDecoded
    /\ encoded' = NotEncoded
    /\ request' = NotHandled
    /\ UNCHANGED <<pc, db, definitions, idx, Entities, TypeMap, createErr,
                   collections, indexCalls>>
    /\ UNCHANGED <<middleware, libVars, ctxVars, reqVars>>

\* an entity value is encoded and the document handed to the decoder of its
\* entity, as the request test does with json.Marshal
RoundTrip ==
    /\ pc = "ok"
    /\ ~request.handled
    /\ middleware.handle
    /\ middleware.of = "creation"
    /\ \E entityID \in {middleware.id}, by \in Encoders :
          /\ \E val \in EntityValues(Entities[entityID].Entity.SchemaDefinition) :
                LET req == Encode(by, Entities[entityID].Entity.SchemaDefinition, val)
                    r == processCreation(Entities, <<entityID>>, req)
                IN /\ decoded' = [called |-> TRUE, id |-> entityID, payload |-> req,
                                  val |-> r.val, err |-> r.err]
                   /\ encoded' = [called |-> TRUE, by |-> by, from |-> val]
                   /\ request' = PassedOn("processCreation", Entities[entityID].EntityID,
                                        r.val, r.err)
    /\ UNCHANGED <<pc, db, definitions, idx, Entities, TypeMap, createErr,
                   collections, indexCalls>>
    /\ UNCHANGED <<middleware, libVars, ctxVars, reqVars>>

Next(universe) ==
    \/ CreateCall(universe)
    \/ CreateDefinition
    \/ CreateLink
    \/ CreationMiddleware
    \/ Decode
    \/ Malformed
    \/ Served

NextRoundTrip == Next(RoundTripTypes) \/ RoundTrip

NextEdit == Next(EditTypes) \/ EditMiddleware \/ EditHandler

NextRegistry == Next(RegistryTypes)
NextEmbed == Next(EmbedTypes)
NextCollection == Next(CollectionTypes)

Spec == Init /\ [][NextRegistry]_vars
SpecEmbed == Init /\ [][NextEmbed]_vars
SpecCollection == Init /\ [][NextCollection]_vars
SpecRoundTrip == Init /\ [][NextRoundTrip]_vars
SpecEdit == Init /\ [][NextEdit]_vars

(***************************************************************************)
(* The calls on one EMuxContext.                                           *)
(***************************************************************************)
\* a goroutine calls a method of the context
CallContext(g) ==
    /\ goroutines[g].pc = "idle"
    /\ \E c \in {Calling("Set", k, v) : k \in Keys, v \in Values}
                \cup {Calling("Retrieve", k, "") : k \in Keys}
                \cup {Calling("SetError", "", m) : m \in Messages}
                \cup {Calling("Error", "", "")} :
          goroutines' = [goroutines EXCEPT ![g] = c]
    /\ UNCHANGED <<payloads, emcErr, mutex, history>>
    /\ UNCHANGED <<muxVars, libVars, reqVars>>

\* variant: Lock returns although the mutex is held
LockWithoutWaiting(g) ==
    /\ goroutines[g].pc = "lock"
    /\ mutex' = g
    /\ goroutines' = [goroutines EXCEPT ![g].pc = "locked"]
    /\ UNCHANGED <<payloads, emcErr, history>>
    /\ UNCHANGED <<muxVars, libVars, reqVars>>

\* emc.mutex.Lock(): returns once the mutex is free, and holds it
Lock(g) ==
    /\ goroutines[g].pc = "lock"
    /\ mutex = Unlocked
    /\ mutex' = g
    /\ goroutines' = [goroutines EXCEPT ![g].pc = "locked"]
    /\ UNCHANGED <<payloads, emcErr, history>>
    /\ UNCHANGED <<muxVars, libVars, reqVars>>

\* Set, line 66: emc.payloads[key] = payload
Set(g) ==
    /\ goroutines[g].pc = "locked"
    /\ goroutines[g].op = "Set"
    /\ payloads' = MapPut(payloads, goroutines[g].key, goroutines[g].arg)
    /\ goroutines' = [goroutines EXCEPT ![g].pc = "defer", ![g].ret = NilError]
    /\ UNCHANGED <<emcErr, mutex, history>>
    /\ UNCHANGED <<muxVars, libVars, reqVars>>

\* Retrieve, line 78: return emc.payloads[key]
Retrieve(g) ==
    /\ goroutines[g].pc = "locked"
    /\ goroutines[g].op = "Retrieve"
    /\ goroutines' = [goroutines EXCEPT ![g].pc = "defer",
                          ![g].ret = IF goroutines[g].key \in DOMAIN payloads
                                     THEN payloads[goroutines[g].key] ELSE NilValue]
    /\ UNCHANGED <<payloads, emcErr, mutex, history>>
    /\ UNCHANGED <<muxVars, libVars, reqVars>>

\* variant: an error already stored is kept
StoredErrorKept(current, msg) ==
    IF current = NilError THEN Errorf(msg) ELSE current

\* SetError, line 88: the value of emc.err after emc.err = fmt.Errorf(msg)
StoredError(current, msg) == Errorf(msg)

SetError(g) ==
    /\ goroutines[g].pc = "locked"
    /\ goroutines[g].op = "SetError"
    /\ emcErr' = StoredError(emcErr, goroutines[g].arg)
    /\ goroutines' = [goroutines EXCEPT ![g].pc = "defer"]
    /\ UNCHANGED <<payloads, mutex, history>>
    /\ UNCHANGED <<muxVars, libVars, reqVars>>

\* Error, line 98: return emc.err
Error(g) ==
    /\ goroutines[g].pc = "locked"
    /\ goroutines[g].op = "Error"
    /\ goroutines' = [goroutines EXCEPT ![g].pc = "defer", ![g].ret = emcErr]
    /\ UNCHANGED <<payloads, emcErr, mutex, history>>
    /\ UNCHANGED <<muxVars, libVars, reqVars>>

\* what a call that returns adds to the history: the payload a Set stored,
\* the first and the last error a SetError was asked to store
Recorded(h, c) ==
    CASE c.op = "Set" -> [h EXCEPT !.sets = MapPut(h.sets, c.key, c.arg)]
      [] c.op = "SetError" ->
           [h EXCEPT !.first = IF h.first = NilError THEN Errorf(c.arg) ELSE h.first,
                     !.last = Errorf(c.arg)]
      [] OTHER -> h

\* the deferred emc.mutex.Unlock(), and the return
Unlock(g) ==
    /\ goroutines[g].pc = "defer"
    /\ mutex' = Unlocked
    /\ history' = Recorded(history, goroutines[g])
    /\ goroutines' = [goroutines EXCEPT ![g] = Idle]
    /\ UNCHANGED <<payloads, emcErr>>
    /\ UNCHANGED <<muxVars, libVars, reqVars>>

NextContext ==
    \E g \in Goroutines :
        \/ CallContext(g)
        \/ Lock(g)
        \/ Set(g)
        \/ Retrieve(g)
        \/ SetError(g)
        \/ Error(g)
        \/ Unlock(g)

SpecContext == Init /\ [][NextContext]_vars

(***************************************************************************)
(* The functions of the library that take no multiplexer, each called with *)
(* arguments drawn from a small set.                                       *)
(***************************************************************************)
\* tag values: none, the ignore value, and names
MaxTags == 2
TagNames == {"n" \o ToString(k) : k \in 1..MaxTags}
TagValues == {"", "-"} \cup TagNames

NamedFields ==
    {StrF(name, ("json" :> j) @@ ("bson" :> b)) :
        name \in {"F", "G"}, j \in TagValues, b \in TagValues}

Priorities == {<<>>, <<JSONTag>>, <<BSONTag>>, PriorityJsonBson, PriorityBsonJson}

NameByPriorityCall ==
    /\ \E field \in NamedFields, p \in Priorities :
          call' = [op |-> "NameByPriority", field |-> field, priority |-> p,
                   name |-> NameByPriority(field, p)]
    /\ UNCHANGED <<muxVars, ctxVars, reqVars>>

(***************************************************************************)
(* spec.ESpec and its two encodings; a bson.M is a Map.                    *)
(***************************************************************************)
ESpec(field, target, updateOperator, queryOperator) ==
    [Field |-> field, Target |-> target, UpdateOperator |-> updateOperator,
     QueryOperator |-> queryOperator]

\* fmt.Sprintf("$%s", operator)
Dollar(operator) == "$" \o operator

ESpecToBSON(s) ==
    IF s.QueryOperator = "" THEN Map(s.Field :> s.Target)
    ELSE Map(s.Field :> Map(Dollar(s.QueryOperator) :> s.Target))

\* variant: the update operator of the ESpec is not looked at
ToUpdateSpecAlwaysSet(s) == Map(Dollar("set") :> ESpecToBSON(s))

ToUpdateSpec(s) ==
    LET operator == IF s.UpdateOperator # "" THEN s.UpdateOperator ELSE "set"
    IN Map(Dollar(operator) :> ESpecToBSON(s))

QueryOperators == {"", "in", "gt", "lt"}
UpdateOperators == {"", "push", "inc", "set"}

ESpecs ==
    {ESpec(field, target, u, q) :
        field \in {"f", "g"}, target \in {Null, Str("a"), Num(1)},
        u \in UpdateOperators, q \in QueryOperators}

ESpecToBSONCall ==
    /\ \E s \in ESpecs :
          call' = [op |-> "ESpec.ToBSON", spec |-> s, doc |-> ESpecToBSON(s)]
    /\ UNCHANGED <<muxVars, ctxVars, reqVars>>

ToUpdateSpecCall ==
    /\ \E s \in ESpecs :
          call' = [op |-> "ESpec.ToUpdateSpec", spec |-> s, doc |-> ToUpdateSpec(s)]
    /\ UNCHANGED <<muxVars, ctxVars, reqVars>>

FilterCall ==
    /\ \E type \in FilterTypes :
          \E val \in EntityValues(type) :
             call' = [op |-> "Filter", type |-> type, entity |-> val,
                      filter |-> Filter(type, val)]
    /\ UNCHANGED <<muxVars, ctxVars, reqVars>>

(***************************************************************************)
(* Entity.Edit, Entity.Exists and Entity.Delete.  e is given by its         *)
(* SchemaDefinition, the entity by its type and value; res is the error of  *)
(* the store's result (res.Err()).  The result carries what the method      *)
(* returns and the calls it made on PStorage.                               *)
(***************************************************************************)
\* Entity.typeCheck: TypeOf(entity) == e.SchemaDefinition
typeCheck(schema, type) == type = schema

\* res.Err() of a store call
StoreResults == {"nil", "ErrNoDocuments", "CommandError"}

StoreCall(op, filter) == [op |-> op, nilFilter |-> filter.nil, filter |-> filter]

Edit(schema, type, val, s, res) ==
    IF ~typeCheck(schema, type)
    THEN [err |-> "IncompatibleEntityType", store |-> <<>>]
    ELSE LET filter == Filter(type, val)
         IN IF filter.nil
            THEN [err |-> "UndefinedAxis", store |-> <<>>]
            ELSE [err |-> res, store |-> <<StoreCall("FindOneAndUpdate", filter)>>]

\* dest is TRUE when a destination is given, decodes when res.Decode succeeds
Exists(schema, type, val, dest, decodes, res) ==
    IF ~typeCheck(schema, type)
    THEN [found |-> FALSE, err |-> "IncompatibleEntityType", store |-> <<>>]
    ELSE LET filter == Filter(type, val)
             store == <<StoreCall("FindOne", filter)>>
         IN IF filter.nil
            THEN [found |-> FALSE, err |-> "UndefinedAxis", store |-> <<>>]
            ELSE IF res # "ErrNoDocuments"
            THEN IF dest /\ ~decodes
                 THEN [found |-> TRUE, err |-> "DBDecodeFail", store |-> store]
                 ELSE [found |-> TRUE, err |-> "nil", store |-> store]
            ELSE [found |-> FALSE, err |-> res, store |-> store]

\* variant: the filter is handed to the store as Filter returned it
DeleteWithoutAxisTest(schema, type, val, res) ==
    IF ~typeCheck(schema, type)
    THEN [err |-> "IncompatibleEntityType", store |-> <<>>]
    ELSE [err |-> res, store |-> <<StoreCall("FindOneAndDelete", Filter(type, val))>>]

Delete(schema, type, val, res) ==
    IF ~typeCheck(schema, type)
    THEN [err |-> "IncompatibleEntityType", store |-> <<>>]
    ELSE LET filter == Filter(type, val)
         IN IF filter.nil
            THEN [err |-> "UndefinedAxis", store |-> <<>>]
            ELSE [err |-> res, store |-> <<StoreCall("FindOneAndDelete", filter)>>]

EditCall ==
    /\ \E schema \in FilterTypes, type \in FilterTypes, res \in StoreResults,
          u \in UpdateOperators :
          \E val \in EntityValues(type) :
             LET s == ESpec("f", Str("a"), u, "")
                 r == Edit(schema, type, val, s, res)
             IN call' = [op |-> "Entity.Edit", schema |-> schema, type |-> type,
                         entity |-> val, update |-> ToUpdateSpec(s),
                         found |-> FALSE, err |-> r.err, store |-> r.store]
    /\ UNCHANGED <<muxVars, ctxVars, reqVars>>

ExistsCall ==
    /\ \E schema \in FilterTypes, type \in FilterTypes, res \in StoreResults,
          dest \in BOOLEAN, decodes \in BOOLEAN :
          \E val \in EntityValues(type) :
             LET r == Exists(schema, type, val, dest, decodes, res)
             IN call' = [op |-> "Entity.Exists", schema |-> schema, type |-> type,
                         entity |-> val, dest |-> dest,
                         found |-> r.found, err |-> r.err, store |-> r.store]
    /\ UNCHANGED <<muxVars, ctxVars, reqVars>>

DeleteCall ==
    /\ \E schema \in FilterTypes, type \in FilterTypes, res \in StoreResults :
          \E val \in EntityValues(type) :
             LET r == Delete(schema, type, val, res)
             IN call' = [op |-> "Entity.Delete", schema |-> schema, type |-> type,
                         entity |-> val,
                         found |-> FALSE, err |-> r.err, store |-> r.store]
    /\ UNCHANGED <<muxVars, ctxVars, reqVars>>

NextLibrary ==
    \/ NameByPriorityCall
    \/ FilterCall
    \/ ESpecToBSONCall
    \/ ToUpdateSpecCall
    \/ EditCall
    \/ ExistsCall
    \/ DeleteCall

SpecLibrary == Init /\ [][NextLibrary]_vars

(***************************************************************************)
(* The handler of the creation middleware, step by step, for goroutine g.  *)
(***************************************************************************)
\* the definitions the concurrent requests are decoded for
RequestTypes == {"TaskDetails", "Task"}

\* lines 240-248: the body is decoded, the context created and embedded
Accept(g) ==
    /\ pc = "ok"
    /\ handlers[g].pc = "idle"
    /\ \E entityID \in DOMAIN Entities :
          /\ MiddlewareError(Entities, entityID) = "nil"
          /\ \E req \in Payloads(Entities[entityID].Entity.SchemaDefinition, 0) :
                LET muxCtx == Create(contexts)
                IN /\ contexts' = muxCtx.heap
                   /\ handlers' = [handlers EXCEPT ![g] =
                         [@ EXCEPT !.pc = "decode", !.id = entityID, !.payload = req,
                                   !.ctx = muxCtx.at]]
    /\ UNCHANGED <<muxVars, libVars, ctxVars, values>>

\* processCreation, lines 304-309: the value to fill and the fields to read
Allocate(g) ==
    /\ handlers[g].pc = "decode"
    /\ LET meta == Entities[handlers[g].id]
           preProcessedEntity == New(values, Zero("struct", meta.Entity.SchemaDefinition))
       IN /\ values' = preProcessedEntity.heap
          /\ handlers' = [handlers EXCEPT ![g] =
                [@ EXCEPT !.pc = "fields", !.ent = preProcessedEntity.at, !.k = 1]]
    /\ UNCHANGED <<muxVars, libVars, ctxVars, contexts>>

\* processCreation, lines 311-373: one iteration of the loop over the
\* creation fields, or the return after the last one
DecodeField(g) ==
    /\ handlers[g].pc = "fields"
    /\ LET h == handlers[g]
           creationFields == Entities[h.id].FieldClassifications[CreationFieldsToken]
       IN IF h.k > Len(creationFields)
          THEN /\ handlers' = [handlers EXCEPT ![g] = [@ EXCEPT !.pc = "store"]]
               /\ UNCHANGED values
          ELSE LET r == DecodeFields(Entities, SubSeq(creationFields, h.k, h.k), 1,
                                     h.payload, values[h.ent])
               IN /\ values' = [values EXCEPT ![h.ent] = r.val]
                  /\ handlers' = [handlers EXCEPT ![g] =
                        IF r.err # "nil" THEN [@ EXCEPT !.pc = "store", !.err = r.err]
                        ELSE [@ EXCEPT !.k = h.k + 1]]
    /\ UNCHANGED <<muxVars, libVars, ctxVars, contexts>>

\* lines 251-256: the error or the entity is put in the request's context
Store(g) ==
    /\ handlers[g].pc = "store"
    /\ LET h == handlers[g]
           withError == WithError(contexts[h.ctx], h.err)
       IN contexts' = [contexts EXCEPT ![h.ctx] =
             IF withError.err = NilError
             THEN [withError EXCEPT !.payloads =
                      MapPut(@, Entities[h.id].EntityID, values[h.ent])]
             ELSE withError]
    /\ handlers' = [handlers EXCEPT ![g] = [@ EXCEPT !.pc = "next"]]
    /\ UNCHANGED <<muxVars, libVars, ctxVars, values>>

\* lines 257-260: next.ServeHTTP(w, reqWithCtx) reads the context of its request
ServeNext(g) ==
    /\ handlers[g].pc = "next"
    /\ handlers' = [handlers EXCEPT ![g] =
          [@ EXCEPT !.pc = "done", !.seen = contexts[handlers[g].ctx]]]
    /\ UNCHANGED <<muxVars, libVars, ctxVars, contexts, values>>

NextRequests ==
    \/ CreateCall(RequestTypes)
    \/ CreateDefinition
    \/ CreateLink
    \/ \E g \in Goroutines : Accept(g)
    \/ \E g \in Goroutines : Allocate(g)
    \/ \E g \in Goroutines : DecodeField(g)
    \/ \E g \in Goroutines : Store(g)
    \/ \E g \in Goroutines : ServeNext(g)

SpecRequests == Init /\ [][NextRequests]_vars

(***************************************************************************)
(* Vocabulary of the properties, read off the type declarations alone.     *)
(***************************************************************************)
\* the fields of a type whose identity tag counts: non-empty and not "-"
IdentityFields(type) ==
    {k \in 1..Len(FieldsOf(type)) : LET tag == TagGet(FieldsOf(type)[k], IDTag)
                                    IN tag # "" /\ tag # "-"}

HasIdentity(type) == IdentityFields(type) # {}

Largest(S) == CHOOSE k \in S : \A j \in S : j <= k
Smallest(S) == CHOOSE k \in S : \A j \in S : k <= j

\* the identity value of the last / first identity field in declaration order
LastIdentity(type) == TagGet(FieldsOf(type)[Largest(IdentityFields(type))], IDTag)
FirstIdentity(type) == TagGet(FieldsOf(type)[Smallest(IdentityFields(type))], IDTag)

Suppressed(type) == SubSeq(LastIdentity(type), 1, 1) = "!"

\* the identifier a type resolves to: its last identity value without a leading '!'
Identifier(type) ==
    IF Suppressed(type) THEN SubSeq(LastIdentity(type), 2, Len(LastIdentity(type)))
    ELSE LastIdentity(type)

\* Create has returned (with a multiplexer or an error)
Returned == pc \in {"ok", "failed"}

\* the number of definitions the loop of Create has taken up so far
Processed ==
    CASE pc \in {"loop", "ok"} -> idx - 1
      [] pc = "panic" -> idx
      [] pc = "failed" /\ createErr # "DBUninitialized" -> idx
      [] OTHER -> 0

\* definitions j and an earlier one resolve to the same identifier
Repeats(j) ==
    /\ HasIdentity(definitions[j])
    /\ \E i \in 1..(j - 1) : /\ HasIdentity(definitions[i])
                             /\ Identifier(definitions[i]) = Identifier(definitions[j])

FirstWith(id) ==
    Smallest({i \in 1..Len(definitions) :
                 HasIdentity(definitions[i]) /\ Identifier(definitions[i]) = id})

(***************************************************************************)
(* C1 as stated: whenever the definitions given to Create (with a db)      *)
(* contain two that resolve to the same identifier, Create returns the     *)
(* duplicate-identifier error.                                             *)
(***************************************************************************)
C1_AlwaysDuplicateError ==
    (Returned /\ db /\ \E j \in 1..Len(definitions) : Repeats(j))
        => createErr = "DuplicateTag"

(***************************************************************************)
(* C1 amended: when Create takes up a definition whose identifier an       *)
(* earlier definition of the list resolved to, it stops there with the     *)
(* duplicate-identifier error, and the registry still holds the first      *)
(* definition under that identifier and no entry for the later one; such a *)
(* list never yields a multiplexer.                                        *)
(***************************************************************************)
C1_DuplicateStopsCreate ==
    /\ \A j \in 1..Processed :
          Repeats(j) =>
             LET id == Identifier(definitions[j])
             IN /\ pc = "failed" /\ createErr = "DuplicateTag" /\ idx = j
                /\ id \in DOMAIN Entities
                /\ Entities[id].Entity.SchemaDefinition = definitions[FirstWith(id)]
                /\ (definitions[j] # definitions[FirstWith(id)]
                       => definitions[j] \notin DOMAIN TypeMap)
    /\ pc = "ok" => \A j \in 1..Len(definitions) : ~Repeats(j)

\* a duplicate found after stripping the marker, behind a registered definition
C1_Witness ==
    /\ pc = "failed" /\ createErr = "DuplicateTag" /\ idx = 3
    /\ Suppressed(definitions[3]) /\ ~Suppressed(definitions[FirstWith(Identifier(definitions[3]))])

RECURSIVE RequestedUpTo(_)
RequestedUpTo(n) ==
    IF n = 0 THEN <<>>
    ELSE LET type == definitions[n]
         IN IF HasIdentity(type) /\ ~Suppressed(type)
            THEN Append(RequestedUpTo(n - 1), Identifier(type))
            ELSE RequestedUpTo(n - 1)

(***************************************************************************)
(* C4: a definition whose identity value begins with '!' is registered     *)
(* under the value without the marker, no collection is requested for it   *)
(* and the handle of its entity is nil; for every other definition Create  *)
(* requests the collection named by its identifier and attaches it.        *)
(***************************************************************************)
C4_SuppressionMarker ==
    /\ collections = RequestedUpTo(Processed)
    /\ \A type \in DOMAIN TypeMap :
          LET id == TypeMap[type]
              value == LastIdentity(type)
          IN IF SubSeq(value, 1, 1) = "!"
             THEN /\ id = SubSeq(value, 2, Len(value))
                  /\ Entities[id].EntityID = id
                  /\ Collection(Entities, id) = <<>>
             ELSE /\ id = value
                  /\ Entities[id].EntityID = id
                  /\ Collection(Entities, id) = <<id>>

\* a marked and an unmarked definition registered by the same call
C4_Witness ==
    /\ pc = "ok"
    /\ \E a, b \in DOMAIN TypeMap :
          /\ Suppressed(a) /\ Collection(Entities, TypeMap[a]) = <<>>
          /\ TypeMap[a] # ""
          /\ ~Suppressed(b) /\ collections = <<TypeMap[b]>>
          /\ Len(definitions) = 2

(***************************************************************************)
(* C5: after a successful Create the identifier map and the type map are   *)
(* inverse to each other: every registered type maps to an identifier      *)
(* whose entry is that type, and every entry's type maps back to its key.  *)
(***************************************************************************)
C5_MapsInverse ==
    pc = "ok" =>
       /\ \A type \in DOMAIN TypeMap :
             /\ TypeMap[type] \in DOMAIN Entities
             /\ Entities[TypeMap[type]].Entity.SchemaDefinition = type
       /\ \A id \in DOMAIN Entities :
             /\ Entities[id].Entity.SchemaDefinition \in DOMAIN TypeMap
             /\ TypeMap[Entities[id].Entity.SchemaDefinition] = id
             /\ Entities[id].EntityID = id

C5_Witness ==
    /\ pc = "ok"
    /\ Cardinality(DOMAIN Entities) = 3
    /\ Cardinality(DOMAIN TypeMap) = 3

\* the type a field embeds: the element type of a slice, else the field's type
TargetType(field) == IF field.Kind = "slice" THEN field.Elem ELSE field.Type

\* the creation fields of a type, read off its declaration
CreationFieldIndexes(type) ==
    {k \in 1..Len(FieldsOf(type)) :
        \E n \in 1..Len(TagGet(FieldsOf(type)[k], HandleTag)) :
            SubSeq(TagGet(FieldsOf(type)[k], HandleTag), n, n) = "c"}

\* the classified creation field of a registered type for its declared field k
CreationField(type, k) ==
    LET cfs == Entities[TypeMap[type]].FieldClassifications[CreationFieldsToken]
        n == CHOOSE n \in 1..Len(cfs) : cfs[n].Name = FieldsOf(type)[k].Name
    IN cfs[n]

(***************************************************************************)
(* C6 as stated: after a successful Create every creation field whose      *)
(* embedded type was registered by the call refers to that type's entry,   *)
(* in whatever order the definitions were given, and a field whose type    *)
(* was not registered refers to nothing.                                   *)
(***************************************************************************)
C6_LinksAllRegistered ==
    pc = "ok" =>
       \A type \in DOMAIN TypeMap : \A k \in CreationFieldIndexes(type) :
          LET target == TargetType(FieldsOf(type)[k])
              meta == CreationField(type, k).EmbeddedEntity.Meta
          IN IF target \in DOMAIN TypeMap
             THEN meta = <<TypeMap[target]>>
             ELSE meta = <<>>

(***************************************************************************)
(* Vocabulary of the decoding properties.                                  *)
(***************************************************************************)
\* the classified creation fields of the entity the request was decoded for
DecodedFields == Entities[decoded.id].FieldClassifications[CreationFieldsToken]

CreationFieldsOf(meta) == Entities[meta[1]].FieldClassifications[CreationFieldsToken]

IsScalar(cf) == ~cf.EmbeddedEntity.CFlag /\ ~cf.EmbeddedEntity.SFlag

Present(payload, key) == key \in DOMAIN payload /\ payload[key].t # "nil"

\* the payload value has the dynamic type a field of this kind takes
Matches(kind, v) ==
    \/ kind = "string" /\ v.t = "string"
    \/ kind = "int" /\ v.t = "int64"
    \/ kind = "float" /\ v.t = "float64"
    \/ kind = "bool" /\ v.t = "bool"

ValueOf(v) ==
    CASE v.t = "string" -> v.str
      [] v.t = "float64" -> v.num
      [] v.t = "bool" -> v.bool

\* the field is linked exactly when its embedded type is registered under a
\* non-empty identifier
LinkedAsRegistered(cf) ==
    cf.EmbeddedEntity.Meta =
       IF /\ cf.EmbeddedEntity.EmbeddedType \in DOMAIN TypeMap
          /\ TypeMap[cf.EmbeddedEntity.EmbeddedType] # ""
       THEN <<TypeMap[cf.EmbeddedEntity.EmbeddedType]>>
       ELSE <<>>

AllMaps(l) == \A i \in 1..Len(l) : l[i].t = "map"

\* the payload restricted to the keys of the creation fields before field n
Before(cfs, payload, n) ==
    [key \in DOMAIN payload \cap {cfs[j].RequestID : j \in 1..(n - 1)} |-> payload[key]]

(***************************************************************************)
(* C7 as stated: for a creation field of A that embeds the registered      *)
(* entity B under key k, the field of the value decoded from {k: m} equals *)
(* the value decoded for B from m, and a value under k that is not a map   *)
(* gives the invalid-embedded-payload error.                               *)
(***************************************************************************)
C7_EmbeddedEqualsDecode ==
    decoded.called =>
       \A n \in 1..Len(DecodedFields) :
          LET cf == DecodedFields[n]
              k == cf.RequestID
          IN (/\ cf.EmbeddedEntity.SFlag
              /\ cf.Type \in DOMAIN TypeMap
              /\ DOMAIN decoded.payload = {k}
              /\ Present(decoded.payload, k))
             => IF decoded.payload[k].t = "map"
                THEN decoded.val[cf.Name]
                        = processCreation(Entities, <<TypeMap[cf.Type]>>,
                                          decoded.payload[k].map).val
                ELSE decoded.err = "EmbeddedWriteDataInvalid"

\* in a value decoded without error every single-embedding field given a map holds
\* the value decoded for the embedded entity from that map, at every depth
RECURSIVE EmbeddedAgree(_, _, _)
EmbeddedAgree(meta, payload, val) ==
    \A n \in 1..Len(CreationFieldsOf(meta)) :
       LET cf == CreationFieldsOf(meta)[n]
       IN (cf.EmbeddedEntity.SFlag /\ Present(payload, cf.RequestID))
          => /\ payload[cf.RequestID].t = "map"
             /\ LET b == processCreation(Entities, cf.EmbeddedEntity.Meta,
                                         payload[cf.RequestID].map)
                IN /\ b.err = "nil"
                   /\ val[cf.Name] = b.val
                   /\ EmbeddedAgree(cf.EmbeddedEntity.Meta, payload[cf.RequestID].map,
                                    val[cf.Name])

(***************************************************************************)
(* C7 amended: for a creation field of A that embeds a single entity B     *)
(* under key k and the payload {k: x}: if x is a map that B decodes        *)
(* without error, the field equals the value decoded for B from x and A's  *)
(* decode has no error; if B's decode of x returns an error, or the field  *)
(* is not linked, A's decode returns the invalid-embedded-payload error    *)
(* and the field keeps its zero value; if x is null the key is skipped     *)
(* without error; any other x gives the invalid-embedded-payload error.    *)
(* Whenever a decode returns no error the equality holds for every such    *)
(* field at every nesting depth.                                           *)
(***************************************************************************)
C7_EmbeddedDecode ==
    decoded.called =>
       /\ \A n \in 1..Len(DecodedFields) :
             LET cf == DecodedFields[n]
                 k == cf.RequestID
                 x == decoded.payload[k]
                 zero == Zero(cf.Kind, cf.Type)
             IN (cf.EmbeddedEntity.SFlag /\ DOMAIN decoded.payload = {k})
                => /\ LinkedAsRegistered(cf)
                   /\ CASE x.t = "nil" ->
                             decoded.err = "nil" /\ decoded.val[cf.Name] = zero
                        [] x.t = "map" ->
                             LET b == processCreation(Entities, cf.EmbeddedEntity.Meta, x.map)
                             IN IF b.err = "nil"
                                THEN decoded.err = "nil" /\ decoded.val[cf.Name] = b.val
                                ELSE /\ decoded.err = "EmbeddedWriteDataInvalid"
                                     /\ decoded.val[cf.Name] = zero
                        [] OTHER ->
                             /\ decoded.err = "EmbeddedWriteDataInvalid"
                             /\ decoded.val[cf.Name] = zero
       /\ decoded.err = "nil" => EmbeddedAgree(<<decoded.id>>, decoded.payload, decoded.val)

\* an embedded entity that itself embeds one is decoded, two levels deep, with
\* values that differ from the zero value
C7_Witness ==
    /\ decoded.called /\ decoded.err = "nil"
    /\ \E n \in 1..Len(DecodedFields) :
          LET cf == DecodedFields[n]
          IN /\ cf.EmbeddedEntity.SFlag
             /\ DOMAIN decoded.payload = {cf.RequestID}
             /\ decoded.payload[cf.RequestID].t = "map"
             /\ \E m \in 1..Len(CreationFieldsOf(cf.EmbeddedEntity.Meta)) :
                   LET inner == CreationFieldsOf(cf.EmbeddedEntity.Meta)[m]
                   IN /\ inner.EmbeddedEntity.SFlag
                      /\ Present(decoded.payload[cf.RequestID].map, inner.RequestID)
                      /\ decoded.val[cf.Name][inner.Name]
                            # Zero(inner.Kind, inner.Type)

\* the embedded decode fails on a nested mismatch and the field stays zero
C7_WitnessFailure ==
    /\ decoded.called /\ decoded.err = "EmbeddedWriteDataInvalid"
    /\ \E n \in 1..Len(DecodedFields) :
          LET cf == DecodedFields[n]
          IN /\ cf.EmbeddedEntity.SFlag
             /\ DOMAIN decoded.payload = {cf.RequestID}
             /\ decoded.payload[cf.RequestID].t = "map"
             /\ cf.EmbeddedEntity.Meta # <<>>

\* the values the elements of a collection payload decode to, in input order
ElementDecodes(cf, l) ==
    [i \in 1..Len(l) |-> processCreation(Entities, cf.EmbeddedEntity.Meta, l[i].map)]

(***************************************************************************)
(* C8 as stated: for a creation field that embeds a collection of the      *)
(* registered entity B, a payload value that is a sequence of n maps gives *)
(* a collection of exactly n elements, the i-th being the decode of the    *)
(* i-th map against B.                                                     *)
(***************************************************************************)
C8_CollectionEqualsDecodes ==
    decoded.called =>
       \A n \in 1..Len(DecodedFields) :
          LET cf == DecodedFields[n]
              k == cf.RequestID
          IN (/\ cf.EmbeddedEntity.CFlag
              /\ cf.EmbeddedEntity.Meta # <<>>
              /\ Present(decoded.payload, k)
              /\ decoded.payload[k].t = "slice"
              /\ AllMaps(decoded.payload[k].list))
             => LET l == decoded.payload[k].list
                IN /\ Len(decoded.val[cf.Name]) = Len(l)
                   /\ \A i \in 1..Len(l) :
                         decoded.val[cf.Name][i] = ElementDecodes(cf, l)[i].val

\* in a value decoded without error every collection field holds the decodes of
\* the payload's elements, in order, at every depth
RECURSIVE CollectionsAgree(_, _, _)
CollectionsAgree(meta, payload, val) ==
    \A n \in 1..Len(CreationFieldsOf(meta)) :
       LET cf == CreationFieldsOf(meta)[n]
       IN (cf.EmbeddedEntity.CFlag /\ Present(payload, cf.RequestID))
          => /\ payload[cf.RequestID].t = "slice"
             /\ AllMaps(payload[cf.RequestID].list)
             /\ LET l == payload[cf.RequestID].list
                IN /\ Len(val[cf.Name]) = Len(l)
                   /\ \A i \in 1..Len(l) :
                         /\ ElementDecodes(cf, l)[i].err = "nil"
                         /\ val[cf.Name][i] = ElementDecodes(cf, l)[i].val
                         /\ CollectionsAgree(cf.EmbeddedEntity.Meta, l[i].map,
                                             val[cf.Name][i])

(***************************************************************************)
(* C8 amended: for a creation field that embeds a collection of a          *)
(* registered entity B and a payload value that is a sequence of n maps:   *)
(* when the decode returns no error the field holds exactly n elements,    *)
(* the i-th being the error-free decode of the i-th map against B, also    *)
(* for collections nested inside the elements; when the decode of some     *)
(* element returns an error, the decode returns an error and the field is  *)
(* left empty; in every case the field is either empty or holds all n      *)
(* decodes in input order.                                                 *)
(***************************************************************************)
C8_CollectionDecode ==
    decoded.called =>
       /\ \A n \in 1..Len(DecodedFields) :
             LET cf == DecodedFields[n]
                 k == cf.RequestID
             IN (/\ cf.EmbeddedEntity.CFlag
                 /\ cf.EmbeddedEntity.Meta # <<>>
                 /\ Present(decoded.payload, k)
                 /\ decoded.payload[k].t = "slice"
                 /\ AllMaps(decoded.payload[k].list))
                => LET l == decoded.payload[k].list
                       full == [i \in 1..Len(l) |-> ElementDecodes(cf, l)[i].val]
                       before == processCreation(Entities, <<decoded.id>>,
                                                 Before(DecodedFields, decoded.payload, n))
                   IN /\ decoded.err = "nil" => decoded.val[cf.Name] = full
                      /\ (\E i \in 1..Len(l) : ElementDecodes(cf, l)[i].err # "nil")
                            => decoded.err # "nil" /\ decoded.val[cf.Name] = <<>>
                      /\ before.err # "nil"
                            => decoded.err = before.err /\ decoded.val[cf.Name] = <<>>
                      /\ decoded.val[cf.Name] \in {<<>>, full}
       /\ decoded.err = "nil" => CollectionsAgree(<<decoded.id>>, decoded.payload, decoded.val)

\* two different elements are decoded in order, one of them holding a nested
\* collection that is not empty
C8_Witness ==
    /\ decoded.called /\ decoded.err = "nil"
    /\ \E n \in 1..Len(DecodedFields) :
          LET cf == DecodedFields[n]
          IN /\ cf.EmbeddedEntity.CFlag
             /\ Present(decoded.payload, cf.RequestID)
             /\ Len(decoded.val[cf.Name]) = 2
             /\ decoded.val[cf.Name][1] # decoded.val[cf.Name][2]
             /\ \E m \in 1..Len(CreationFieldsOf(cf.EmbeddedEntity.Meta)) :
                   LET inner == CreationFieldsOf(cf.EmbeddedEntity.Meta)[m]
                   IN /\ inner.EmbeddedEntity.CFlag
                      /\ Len(decoded.val[cf.Name][2][inner.Name]) = 1

\* the first creation field, in order, whose payload value is present
FirstPresent(cfs, payload) ==
    Smallest({n \in 1..Len(cfs) : Present(payload, cfs[n].RequestID)})

\* field n is a scalar whose payload value has the wrong type, and every field
\* before it is absent from the payload or a scalar given a value of its type
FirstMismatch(cfs, payload, n) ==
    /\ IsScalar(cfs[n])
    /\ Present(payload, cfs[n].RequestID)
    /\ ~Matches(cfs[n].Kind, payload[cfs[n].RequestID])
    /\ \A j \in 1..(n - 1) :
          Present(payload, cfs[j].RequestID)
             => IsScalar(cfs[j]) /\ Matches(cfs[j].Kind, payload[cfs[j].RequestID])

FirstInvalid(l) == Smallest({i \in 1..Len(l) : l[i].t # "map"})

(***************************************************************************)
(* C10 as stated: when the payload value of a linked collection field      *)
(* contains an element that is not a map, the decode ends with the         *)
(* invalid-embedded-payload error and the collection field holds none of   *)
(* the elements.                                                           *)
(***************************************************************************)
C10_InvalidElementError ==
    decoded.called =>
       \A n \in 1..Len(DecodedFields) :
          LET cf == DecodedFields[n]
              k == cf.RequestID
          IN (/\ cf.EmbeddedEntity.CFlag
              /\ cf.EmbeddedEntity.Meta # <<>>
              /\ Present(decoded.payload, k)
              /\ decoded.payload[k].t = "slice"
              /\ ~AllMaps(decoded.payload[k].list))
             => /\ decoded.err = "EmbeddedWriteDataInvalid"
                /\ decoded.val[cf.Name] = <<>>

(***************************************************************************)
(* C10 amended: when the payload value of a linked collection field        *)
(* contains an element that is not a map, the decode ends with an error    *)
(* and the collection field holds none of the elements; the error is the   *)
(* invalid-embedded-payload error when the creation fields before the      *)
(* collection field and the elements before the first element that is not  *)
(* a map all decode without error, and otherwise the error of the first of *)
(* those that fails.                                                       *)
(***************************************************************************)
C10_InvalidElementAborts ==
    decoded.called =>
       \A n \in 1..Len(DecodedFields) :
          LET cf == DecodedFields[n]
              k == cf.RequestID
          IN (/\ cf.EmbeddedEntity.CFlag
              /\ cf.EmbeddedEntity.Meta # <<>>
              /\ Present(decoded.payload, k)
              /\ decoded.payload[k].t = "slice"
              /\ ~AllMaps(decoded.payload[k].list))
             => LET l == decoded.payload[k].list
                    bad == FirstInvalid(l)
                    before == processCreation(Entities, <<decoded.id>>,
                                              Before(DecodedFields, decoded.payload, n))
                    failing == {i \in 1..(bad - 1) : ElementDecodes(cf, l)[i].err # "nil"}
                IN /\ decoded.err # "nil"
                   /\ decoded.val[cf.Name] = <<>>
                   /\ decoded.err =
                         IF before.err # "nil" THEN before.err
                         ELSE IF failing # {} THEN ElementDecodes(cf, l)[Smallest(failing)].err
                         ELSE "EmbeddedWriteDataInvalid"

\* a map that decodes is followed by an element that is not a map
C10_Witness ==
    /\ decoded.called /\ decoded.err = "EmbeddedWriteDataInvalid"
    /\ \E n \in 1..Len(DecodedFields) :
          LET cf == DecodedFields[n]
          IN /\ cf.EmbeddedEntity.CFlag
             /\ cf.EmbeddedEntity.Meta # <<>>
             /\ Present(decoded.payload, cf.RequestID)
             /\ decoded.payload[cf.RequestID].t = "slice"
             /\ Len(decoded.payload[cf.RequestID].list) = 2
             /\ decoded.payload[cf.RequestID].list[1].t = "map"
             /\ decoded.payload[cf.RequestID].list[2].t = "string"
             /\ ElementDecodes(cf, <<decoded.payload[cf.RequestID].list[1]>>)[1].err = "nil"
             /\ decoded.val[cf.Name] = <<>>

(***************************************************************************)
(* C11 as stated: a creation field whose type matches no registered entity *)
(* is left unlinked, and decoding a value for it raises neither the        *)
(* entity-link nor the embedded-payload error, whatever the field's kind.  *)
(***************************************************************************)
C11_UnlinkedIsOpaque ==
    decoded.called =>
       \A n \in 1..Len(DecodedFields) :
          LET cf == DecodedFields[n]
              k == cf.RequestID
          IN (/\ cf.EmbeddedEntity.EmbeddedType \notin DOMAIN TypeMap
              /\ cf.Type \notin DOMAIN TypeMap
              /\ DOMAIN decoded.payload = {k}
              /\ Present(decoded.payload, k))
             => /\ cf.EmbeddedEntity.Meta = <<>>
                /\ decoded.err \notin {"InvalidEntityLink", "EmbeddedWriteDataInvalid"}

(***************************************************************************)
(* C11 amended: a creation field whose type matches no registered entity   *)
(* is left unlinked.  Its payload value is written directly only when the  *)
(* field is of scalar kind (a value of another type gives the              *)
(* invalid-data-type error).  For an unlinked field of struct kind every   *)
(* non-null payload value gives the invalid-embedded-payload error, for    *)
(* one of slice kind the invalid-entity-link error, and the field keeps    *)
(* its zero value.                                                         *)
(***************************************************************************)
C11_UnlinkedDecode ==
    decoded.called =>
       \A n \in 1..Len(DecodedFields) :
          LET cf == DecodedFields[n]
              k == cf.RequestID
              x == decoded.payload[k]
              zero == Zero(cf.Kind, cf.Type)
          IN (/\ cf.EmbeddedEntity.EmbeddedType \notin DOMAIN TypeMap
              /\ cf.Type \notin DOMAIN TypeMap
              /\ DOMAIN decoded.payload = {k}
              /\ Present(decoded.payload, k))
             => /\ cf.EmbeddedEntity.Meta = <<>>
                /\ CASE cf.Kind = "struct" ->
                          /\ decoded.err = "EmbeddedWriteDataInvalid"
                          /\ decoded.val[cf.Name] = zero
                     [] cf.Kind = "slice" ->
                          /\ decoded.err = "InvalidEntityLink"
                          /\ decoded.val[cf.Name] = zero
                     [] OTHER ->
                          IF Matches(cf.Kind, x)
                          THEN decoded.err = "nil" /\ decoded.val[cf.Name] = ValueOf(x)
                          ELSE /\ decoded.err = "InvalidDataType"
                               /\ decoded.val[cf.Name] = zero

\* a list of maps is given for a slice field whose element type is not registered
C11_Witness ==
    /\ decoded.called /\ decoded.err = "InvalidEntityLink"
    /\ \E n \in 1..Len(DecodedFields) :
          LET cf == DecodedFields[n]
          IN /\ cf.Kind = "slice"
             /\ cf.EmbeddedEntity.EmbeddedType \notin DOMAIN TypeMap
             /\ DOMAIN decoded.payload = {cf.RequestID}
             /\ decoded.payload[cf.RequestID].t = "slice"
             /\ Len(decoded.payload[cf.RequestID].list) > 0
             /\ AllMaps(decoded.payload[cf.RequestID].list)


(***************************************************************************)
(* C12.  Round trip: an entity value encoded to a document (by ToBSON or   *)
(* by the JSON encoding) and decoded by the decoder of the same entity     *)
(* comes back without error and with every scalar creation field equal to  *)
(* the original's, whatever the field's kind and names.                    *)
(***************************************************************************)
ScalarCreationFields ==
    {DecodedFields[n] : n \in {m \in 1..Len(DecodedFields) : IsScalar(DecodedFields[m])}}

C12_RoundTrip ==
    encoded.called =>
        /\ decoded.err = "nil"
        /\ \A cf \in ScalarCreationFields :
               decoded.val[cf.Name] = encoded.from[cf.Name]


(***************************************************************************)
(* C13.  NameByPriority returns the first tag of the priority list that is *)
(* present (non-empty and not "-"), else the field's name, and never the   *)
(* empty string; under the JSON-then-BSON priority that is the JSON name,  *)
(* else the BSON name, else the field's name.                              *)
(***************************************************************************)
TagPresent(field, tagName) == TagGet(field, tagName) \notin {"", "-"}

PresentIn(field, p) == {i \in 1..Len(p) : TagPresent(field, p[i])}

FilteredFields == FieldsOf(call.type)

AxisOf(type) ==
    {k \in 1..Len(FieldsOf(type)) : TagGet(FieldsOf(type)[k], AxisTag) = "true"}

PrimaryKeyOf(type) ==
    {k \in 1..Len(FieldsOf(type)) : TagGet(FieldsOf(type)[k], BSONTag) = "_id"}

NonZero(type, val, k) ==
    LET field == FieldsOf(type)[k]
    IN val[field.Name] # Zero(field.Kind, field.Type)

SetAxes == {k \in AxisOf(call.type) : NonZero(call.type, call.entity, k)}

SetKeys == {k \in PrimaryKeyOf(call.type) : NonZero(call.type, call.entity, k)}

C14_AxisFilter ==
    (call.op = "Filter" /\ SetKeys = {}) =>
        /\ Cardinality(SetAxes) = 1 =>
              LET F == FilteredFields[Smallest(SetAxes)]
              IN call.filter = FilterOn(NameByPriority(F, PriorityBsonJson),
                                        call.entity[F.Name])
        /\ SetAxes = {} => call.filter = NilFilter

(***************************************************************************)
(* C15.  Filter puts the primary key before the axes: whenever a field     *)
(* stored under "_id" holds a non-zero value, the filter is "_id" with     *)
(* that value, whichever axis fields are set and wherever they are         *)
(* declared.                                                               *)
(***************************************************************************)
C15_PrimaryKeyFirst ==
    (call.op = "Filter" /\ SetKeys # {}) =>
        call.filter = FilterOn("_id", call.entity[FilteredFields[Smallest(SetKeys)].Name])



(***************************************************************************)
(* C16.  ESpec.ToBSON is {Field: Target} when QueryOperator is empty and   *)
(* {Field: {"$" + QueryOperator: Target}} otherwise; ToUpdateSpec is       *)
(* {"$" + op: ToBSON} where op is UpdateOperator, or "set" when that is    *)
(* empty.                                                                  *)
(***************************************************************************)
QueryDocument(s) ==
    IF s.QueryOperator = ""
    THEN [t |-> "map", map |-> (s.Field :> s.Target)]
    ELSE [t |-> "map",
          map |-> (s.Field :> [t |-> "map",
                               map |-> (("$" \o s.QueryOperator) :> s.Target)])]

C16_ESpecDocuments ==
    /\ call.op = "ESpec.ToBSON" => call.doc = QueryDocument(call.spec)
    /\ call.op = "ESpec.ToUpdateSpec" =>
          /\ call.spec.UpdateOperator = "" =>
                call.doc = [t |-> "map", map |-> ("$set" :> QueryDocument(call.spec))]
          /\ call.spec.UpdateOperator # "" =>
                call.doc = [t |-> "map",
                            map |-> (("$" \o call.spec.UpdateOperator)
                                        :> QueryDocument(call.spec))]

\* an update document was built from an ESpec that names both operators
C16_Witness ==
    /\ call.op = "ESpec.ToUpdateSpec"
    /\ call.spec.UpdateOperator = "push"
    /\ call.spec.QueryOperator = "in"
    /\ call.doc.map["$push"].map[call.spec.Field].map["$in"] = call.spec.Target



(***************************************************************************)
(* C17.  CreationMiddleware for a registered entity whose list of creation *)
(* fields is empty returns NoClassificationFields and no middleware, and   *)
(* no payload is ever decoded for such an entity.  An entity counts as     *)
(* registered when the multiplexer holds metadata with an identifier for   *)
(* it (line 228).                                                          *)
(***************************************************************************)
Registered(entityID) ==
    entityID \in DOMAIN Entities /\ Entities[entityID].EntityID # ""

NoCreationFields(entityID) ==
    Entities[entityID].FieldClassifications[CreationFieldsToken] = <<>>

C18_NilProvider ==
    (pc # "idle" /\ ~db) =>
        /\ pc = "failed"
        /\ createErr = "DBUninitialized"
        /\ idx = 1
        /\ Entities = NoFunction
        /\ TypeMap = NoFunction
        /\ collections = <<>>
        /\ indexCalls = <<>>
        /\ ~middleware.called

\* Create was called with a nil provider and a definition without identity
C18_Witness ==
    /\ ~db
    /\ createErr = "DBUninitialized"
    /\ definitions # <<>>
    /\ MissingID(classifyFields(definitions[1])[EntityIDToken])



(***************************************************************************)
(* C19.  The error slot of a request context is set at most once: after    *)
(* the first SetError every later SetError leaves the stored error as it   *)
(* is, so that Error() always returns the first error that was set.        *)
(***************************************************************************)
InCall(g, op) == goroutines[g].pc = "defer" /\ goroutines[g].op = op

C19_FirstErrorKept ==
    history.first # NilError =>
        /\ mutex = Unlocked => emcErr = history.first
        /\ \A g \in Goroutines : InCall(g, "Error") => goroutines[g].ret = history.first

(***************************************************************************)
(* C19, as the code has it.  Every SetError replaces the stored error:     *)
(* SetError(msg) leaves fmt.Errorf(msg) in the slot whatever was there,    *)
(* and Error() returns the error of the last SetError that returned, or    *)
(* nil when there was none.                                                *)
(***************************************************************************)
C19_LastErrorStored ==
    /\ mutex = Unlocked => emcErr = history.last
    /\ \A g \in Goroutines :
          /\ InCall(g, "SetError") => emcErr = Errorf(goroutines[g].arg)
          /\ InCall(g, "Error") => goroutines[g].ret = history.last

\* Error() returns the second of two different errors that were set
C19_Witness ==
    /\ history.first # NilError
    /\ history.last # history.first
    /\ \E g \in Goroutines : InCall(g, "Error") /\ goroutines[g].ret = history.last

(***************************************************************************)
(* C20.  Whatever the interleaving of Set, Retrieve, SetError and Error    *)
(* calls of several goroutines on one context: at most one call is         *)
(* between its Lock and its Unlock, that call holds the mutex, the mutex   *)
(* is held by no call that has returned and the call holding it can        *)
(* always release it, and Retrieve(k) returns the payload of the last      *)
(* Set(k) that returned, or nil when there was none.                       *)
(***************************************************************************)
Inside(g) == goroutines[g].pc \in {"locked", "defer"}

C20_MutexGuardsContext ==
    /\ \A g, h \in Goroutines : Inside(g) /\ Inside(h) => g = h
    /\ \A g \in Goroutines : Inside(g) => mutex = g
    /\ mutex # Unlocked => Inside(mutex)
    /\ \A g \in Goroutines : goroutines[g].pc = "defer" => ENABLED Unlock(g)
    /\ \A g \in Goroutines :
          InCall(g, "Retrieve") =>
             goroutines[g].ret = IF goroutines[g].key \in DOMAIN history.sets
                                 THEN history.sets[goroutines[g].key]
                                 ELSE NilValue

\* a Retrieve returns the payload of a Set that returned while another Set
\* of the same key waits for the mutex
C20_Witness ==
    \E g, h \in Goroutines :
        /\ InCall(g, "Retrieve")
        /\ goroutines[g].ret \in Values
        /\ goroutines[h].pc = "lock"
        /\ goroutines[h].op = "Set"
        /\ goroutines[h].key = goroutines[g].key
        /\ goroutines[h].arg # goroutines[g].ret



(***************************************************************************)
(* C21.  A request whose body is not well-formed JSON is answered by the   *)
(* creation and by the edit middleware with the bad-request status: the    *)
(* decoder is not invoked, no request context is created and the next      *)
(* handler is not called.                                                  *)
(***************************************************************************)
C21_MalformedBody ==
    (request.handled /\ ~request.wellFormed) =>
        /\ request.status = 400
        /\ request.decoder = ""
        /\ ~decoded.called
        /\ ~request.context.created
        /\ request.next = 0

\* the edit middleware answered a malformed body
C21_Witness ==
    /\ request.handled
    /\ ~request.wellFormed
    /\ middleware.of = "edit"
    /\ request.status = 400

\* the creation middleware answered a malformed body
C21_WitnessCreation ==
    /\ request.handled
    /\ ~request.wellFormed
    /\ middleware.of = "creation"
    /\ request.status = 400


C22_WitnessStored ==
    /\ request.handled
    /\ request.decoder = "processCreation"
    /\ decoded.err = "nil"
    /\ DOMAIN request.seen.payloads # {}


(***************************************************************************)
(* C23.  A failure of the index creation for an entity during Create does  *)
(* not unregister the entity and does not make Create fail: the metadata   *)
(* stays in the registry and Create returns the registry.  As stated, the  *)
(* failure is also reported to the caller of Create.                       *)
(***************************************************************************)
IndexFailures == {i \in 1..Len(indexCalls) : ~indexCalls[i].ok}

Without(payload, key) == [k \in DOMAIN payload \ {key} |-> payload[k]]

AbsentOrNull(v) == v.t = "nil"

ExplicitlyEmpty(v) ==
    \/ v.t = "string" /\ v.str = ""
    \/ v.t = "slice" /\ v.list = <<>>
    \/ v.t = "map" /\ DOMAIN v.map = {}

\* the decoder treated field cf as not being in the payload
SkippedField(cf) ==
    /\ decoded.val[cf.Name] = Zero(cf.Kind, cf.Type)
    /\ processCreation(Entities, <<decoded.id>>, Without(decoded.payload, cf.RequestID))
          = Result(decoded.val, decoded.err)

C24_EmptySkipped ==
    decoded.called =>
        \A n \in 1..Len(DecodedFields) :
            LET cf == DecodedFields[n]
                v == PayloadGet(decoded.payload, cf.RequestID)
            IN (AbsentOrNull(v) \/ ExplicitlyEmpty(v)) => SkippedField(cf)

C24_AbsentOrNullSkipped ==
    decoded.called =>
        /\ \A n \in 1..Len(DecodedFields) :
              LET cf == DecodedFields[n]
                  v == PayloadGet(decoded.payload, cf.RequestID)
              IN AbsentOrNull(v) => SkippedField(cf)
        /\ (\A n \in 1..Len(DecodedFields) :
                AbsentOrNull(PayloadGet(decoded.payload, DecodedFields[n].RequestID)))
              => /\ decoded.err = "nil"
                 /\ decoded.val = Zero("struct", Entities[decoded.id].Entity.SchemaDefinition)

\* a payload with a null for one field and data for another was decoded
C24_Witness ==
    /\ decoded.called
    /\ decoded.err = "nil"
    /\ \E n, m \in 1..Len(DecodedFields) :
          /\ DecodedFields[n].RequestID \in DOMAIN decoded.payload
          /\ decoded.payload[DecodedFields[n].RequestID].t = "nil"
          /\ decoded.val[DecodedFields[n].Name] = Zero(DecodedFields[n].Kind, DecodedFields[n].Type)
          /\ DecodedFields[m].RequestID \in DOMAIN decoded.payload
          /\ decoded.payload[DecodedFields[m].RequestID].t # "nil"
          /\ decoded.val[DecodedFields[m].Name] # Zero(DecodedFields[m].Kind, DecodedFields[m].Type)


(***************************************************************************)
(* C25.  As stated: index creation is triggered only after all definitions *)
(* have been processed without error, so a run of Create that fails on a   *)
(* definition has issued no index-creation call to the store.               *)
(***************************************************************************)
C25_NoIndexCallOnFailure ==
    pc = "failed" => indexCalls = <<>>

\* a definition Create asks the store to index: it has a collection, a
\* non-empty identifier, and a field with both the axis and the index tag
Indexable(defType) ==
    LET value == classifyFields(defType)[EntityIDToken][1].Value
    IN /\ SubSeq(value, 1, 1) # "!"
       /\ value # ""
       /\ IndexKeys(defType) # <<>>

\* C25 as the code has it: the index creation of a definition is issued in
\* the iteration that registers it.  At any point of a run of Create, failed
\* runs included, the store has received one index-creation call for each
\* indexable definition processed so far, and none for another definition.
C25_IndexedWhenRegistered ==
    pc \in {"loop", "ok", "failed"} =>
        /\ \A i \in 1..Len(indexCalls) : indexCalls[i].at \in 1..(idx - 1)
        /\ \A j \in 1..(idx - 1) :
              Indexable(definitions[j]) <=> \E i \in 1..Len(indexCalls) : indexCalls[i].at = j
        /\ \A i, k \in 1..Len(indexCalls) : i < k => indexCalls[i].at < indexCalls[k].at

\* Create failed on a definition after the index creation of an earlier one
C25_Witness ==
    /\ pc = "failed"
    /\ createErr \in {"NoTag", "DuplicateTag"}
    /\ indexCalls # <<>>
    /\ indexCalls[1].at < idx


(***************************************************************************)
(* C26.  Create issues index creation only for entities for which a        *)
(* storage collection was created: for an entity registered with the       *)
(* suppression marker, which has no storage handle, no index operation is  *)
(* invoked on the absent handle, even when the type has fields marked both *)
(* axis and index.                                                         *)
(***************************************************************************)
C26_NoIndexWithoutCollection ==
    /\ pc # "panic"
    /\ \A i \in 1..Len(indexCalls) :
          /\ CreateCollection(classifyFields(definitions[indexCalls[i].at])[EntityIDToken][1].Value)
          /\ indexCalls[i].id \in {collections[k] : k \in 1..Len(collections)}


(***************************************************************************)
(* C27.  When Filter yields no filter (nil) for the given entity value,    *)
(* Edit, Exists and Delete each return UndefinedAxis and issue no call to  *)
(* the store; a value whose type differs from the entity's schema type     *)
(* yields IncompatibleEntityType, again with no call to the store.  A nil  *)
(* filter is never passed to the store.                                    *)
(***************************************************************************)
EntityCalls == {"Entity.Edit", "Entity.Exists", "Entity.Delete"}

C27_NilFilterNotPassed ==
    call.op \in EntityCalls =>
        /\ call.type # call.schema =>
              call.err = "IncompatibleEntityType" /\ call.store = <<>>
        /\ (call.type = call.schema /\ Filter(call.type, call.entity).nil) =>
              call.err = "UndefinedAxis" /\ call.store = <<>>
        /\ \A i \in 1..Len(call.store) : ~call.store[i].nilFilter

\* Delete was given an entity of the schema type with no axis set
C27_Witness ==
    /\ call.op = "Entity.Delete"
    /\ call.type = call.schema
    /\ Filter(call.type, call.entity).nil
    /\ call.err = "UndefinedAxis"


(***************************************************************************)
(* C28.  Decoding is pure with respect to the registry: processCreation    *)
(* fills a value allocated for the call and modifies neither the metadata  *)
(* of the registry, nor the embedding links, nor the payload it is given.  *)
(* Under every interleaving of concurrent decodings on one registry, each  *)
(* returns what it returns when run alone.                                 *)
(***************************************************************************)
Decoding == {"fields"}
Returning == {"store", "next", "done"}

C28_DecodingPure ==
    [][pc = "ok" =>
          /\ Entities' = Entities
          /\ TypeMap' = TypeMap
          /\ \A g \in Goroutines :
                /\ handlers[g].pc # "idle" => handlers'[g].payload = handlers[g].payload
                /\ handlers'[g].pc \in Returning =>
                      Result(values'[handlers'[g].ent], handlers'[g].err)
                         = processCreation(Entities, <<handlers'[g].id>>, handlers'[g].payload)
      ]_vars

\* two decodings for the same entity, of different payloads, are both under
\* way, each with a field written already
C28_Witness ==
    /\ handlers[1].pc \in Decoding /\ handlers[1].k = 2
    /\ handlers[2].pc \in Decoding /\ handlers[2].k = 2
    /\ handlers[1].id = handlers[2].id
    /\ handlers[1].payload # handlers[2].payload
    /\ values[handlers[1].ent] # values[handlers[2].ent]

(***************************************************************************)
(* C29.  Request contexts are not shared across requests: each request the *)
(* handler serves gets a context created for it, so that what is stored    *)
(* while one request is served is never seen through the context of        *)
(* another, under every interleaving of the requests served concurrently.  *)
(***************************************************************************)
\* what the handler of g has put in its context so far
OwnContext(g) ==
    LET h == handlers[g]
        created == [NoContext EXCEPT !.created = TRUE]
    IN IF h.pc \in {"decode", "fields", "store"} THEN created
       ELSE IF h.err # "nil" THEN [created EXCEPT !.err = Errorf(h.err)]
       ELSE [created EXCEPT !.payloads =
                (Entities[h.id].EntityID :> values[h.ent])]

C29_ContextPerRequest ==
    \A g \in Goroutines :
        handlers[g].pc # "idle" =>
            /\ contexts[handlers[g].ctx] = OwnContext(g)
            /\ handlers[g].pc = "done" => handlers[g].seen = OwnContext(g)
            /\ \A o \in Goroutines \ {g} :
                  handlers[o].pc # "idle" => handlers[o].ctx # handlers[g].ctx

\* a request is passed on with its own entity while another request, for
\* the same entity, has stored an error
C29_Witness ==
    /\ handlers[1].pc = "done"
    /\ handlers[2].pc \in {"next", "done"}
    /\ handlers[1].id = handlers[2].id
    /\ handlers[1].err = "nil"
    /\ handlers[2].err # "nil"
    /\ handlers[1].seen.err = NilError
    /\ DOMAIN handlers[1].seen.payloads # {}


(***************************************************************************)
(* C30.  After a successful Create every identifier under which an entity  *)
(* is registered is a non-empty string: a definition whose identity value  *)
(* is the suppression marker alone is rejected as lacking an identity, and *)
(* is not registered under the empty identifier.                           *)
(***************************************************************************)
C30_IdentifiersNonEmpty ==
    pc = "ok" =>
        /\ \A id \in DOMAIN Entities : id # "" /\ Entities[id].EntityID # ""
        /\ \A type \in DOMAIN TypeMap : TypeMap[type] # ""


=============================================================================
